---------------------------- MODULE Spec2Model ----------------------------
(***************************************************************************)
(* Model of the log analysis engine of action-log-analyzer                 *)
(* (src/src/analyzer.ts).                                                  *)
(*                                                                         *)
(* A log line is a sequence of chunks.  A chunk is a piece of text that    *)
(* the regular expressions of the source treat as a unit:                  *)
(*   "ts"    a timestamp 2026-02-22T19:12:50.8020453Z                      *)
(*           (\d{4}-\d{2}-\d{2}T[\d:.]+Z)                                  *)
(*   "sp"    one whitespace character                                      *)
(*   "esc"   one complete ANSI sequence  \x1b[36;1m                        *)
(*   "escL"  the text \x1b[   and  "escR" the text 0m : the two halves of  *)
(*           an ANSI sequence, a complete sequence when adjacent           *)
(*   "mk"    one complete annotation marker ##[error], ##[group], ...      *)
(*   "mkL"   the text ##[err  and  "mkR" the text or] : the two halves of  *)
(*           a marker, a complete marker when adjacent                     *)
(* every other chunk is a word of the line.                                *)
(***************************************************************************)
EXTENDS Integers, Sequences, FiniteSets, TLC

\* ------------------------------------------------------------------ bounds
MaxRawLen == 4
MaxLocal == 2
MaxRemote == 2
MaxLogLines == 3
MaxCatalog == 2
MaxParamLines == 3
MaxLongParamLines == 32
MaxRepoLines == 4
MaxStepLines == 3
MaxBucketLines == 3
MaxBucketCatalog == 2
MaxJobs == 2
MaxSharedLogLines == 1
MaxSharedCatalog == 1
MaxLinkTexts == 3
MaxRefLines == 3
MaxLongRefLines == 42
MaxDepthLines == 3
MaxCloneLines == 3
MaxFirstMatchLines == 3
MaxContextLines == 5
MaxRuns == 3
MaxWarnLines == 3
MaxOutJobs == 3

\* ----------------------------------------------------------------- helpers
SeqsUpTo(S, n) == UNION {[1..k -> S] : k \in 0..n}

Range(s) == {s[i] : i \in 1..Len(s)}

\* -------------------------------------------------------------- cleanLine
\* .replace(/^\d{4}-\d{2}-\d{2}T[\d:.]+Z\s+/, ''): one timestamp at the very
\* start of the line, followed by at least one whitespace, is removed together
\* with all the whitespace that follows it.
RECURSIVE DropSpaces(_)
DropSpaces(s) ==
  IF s # <<>> /\ Head(s) = "sp" THEN DropSpaces(Tail(s)) ELSE s

StripTimestamp(s) ==
  IF Len(s) >= 2 /\ s[1] = "ts" /\ s[2] = "sp" THEN DropSpaces(Tail(s)) ELSE s

\* .replace(/\x1b\[[0-9;]*[mGKHF]/g, ''): one left-to-right pass, the result is
\* not scanned again.
RECURSIVE StripAnsi(_)
StripAnsi(s) ==
  IF s = <<>> THEN <<>>
  ELSE IF Head(s) = "esc" THEN StripAnsi(Tail(s))
  ELSE IF Len(s) >= 2 /\ s[1] = "escL" /\ s[2] = "escR"
       THEN StripAnsi(Tail(Tail(s)))
  ELSE <<Head(s)>> \o StripAnsi(Tail(s))

\* .replace(/##\[(?:error|warning|debug|group|endgroup)\]/g, ''): one
\* left-to-right pass, the result is not scanned again.
RECURSIVE StripMarkers(_)
StripMarkers(s) ==
  IF s = <<>> THEN <<>>
  ELSE IF Head(s) = "mk" THEN StripMarkers(Tail(s))
  ELSE IF Len(s) >= 2 /\ s[1] = "mkL" /\ s[2] = "mkR"
       THEN StripMarkers(Tail(Tail(s)))
  ELSE <<Head(s)>> \o StripMarkers(Tail(s))

\* .trim()
RECURSIVE DropTrailingSpaces(_)
DropTrailingSpaces(s) ==
  IF s # <<>> /\ s[Len(s)] = "sp"
  THEN DropTrailingSpaces(SubSeq(s, 1, Len(s) - 1))
  ELSE s

Trim(s) == DropTrailingSpaces(DropSpaces(s))

cleanLine(raw) == Trim(StripMarkers(StripAnsi(StripTimestamp(raw))))

\* ================================================================ variables
VARIABLES
  clRaw,       \* cleanLine: the raw line
  clOnce,      \* cleanLine(raw)
  clTwice,     \* cleanLine(cleanLine(raw))
  clPass,      \* number of normalisations applied so far
  ldFile,      \* loadPatterns: the local patterns.json on disk
  ldUrl,       \* loadPatterns: whether a remote URL was given
  ldResponse,  \* loadPatterns: what the remote source answers
  ldLocal,     \* const local  = loadLocalPatterns()
  ldRemote,    \* const remote = await fetchRemotePatterns(remoteUrl)
  ldResult,    \* what loadPatterns returned (or that it threw)
  ldPc,        \* where loadPatterns stands
  anLogs,      \* analyzeLogs: the raw lines of the job's log
  anPatterns,  \* analyzeLogs: the catalog
  anResult,    \* what analyzeLogs returned (or that it threw)
  anPc,        \* where the analysis stands
  bpLines,     \* extractBuildParams: lines
  bpPos,       \* position of the for loop in lines (1-based)
  bpParams,    \* params
  bpSeen,      \* seen
  bpResult,    \* what extractBuildParams returned
  bpPc,        \* where extractBuildParams stands
  crLines,     \* extractClonedRepos: the raw log lines
  crPos,       \* lines already scanned
  crRepo,      \* currentRepo
  crBranch,    \* currentBranch
  crCommit,    \* currentCommit
  crDepth,     \* currentDepth
  crRepos,     \* repos
  crSeen,      \* seen
  crResult,    \* what extractClonedRepos returned
  crPc,        \* where extractClonedRepos stands
  fsLines,     \* failed-step resolution: rawLines
  fsStepName,  \* stepName, <<>> when the caller gives none
  fsResult,    \* the failedStep of the result
  fsPc,        \* where the resolution stands
  cbKind,      \* categorizers: "error" or "warning", the one that is called
  cbLines,     \* errorLines / warningLines
  cbPatterns,  \* patterns
  cbResult,    \* byCategory, as returned
  cbPc,        \* where the categorizer stands
  rnJobs,      \* run(): jobsData.jobs, each a name and a conclusion
  rnPatterns,  \* the catalog the run analyses with
  rnFailedJobName, \* the input failed-job-name, "" when not set
  rnFailedJobs,    \* failedJobs
  rnNext,      \* the position in failedJobs of the job to analyse next
  rnOutputs,   \* the outputs set so far: root-cause, matched-pattern, category
  rnPath,      \* "success" once the success summary is posted, "failure" once
               \* a failed job is analysed
  rnPc,        \* where run() stands
  mjLoaded,    \* several jobs: the catalog as loadPatterns returned it
  mjPatterns,  \* the catalog the calls of analyzeLogs share
  mjLogs,      \* the raw lines of each job
  mjLocals,    \* errorLines and warningLines of each call of analyzeLogs
  mjResult,    \* what analyzeLogs returned for each job
  mjInfo,      \* the core.info messages, in the order they were written
  mjPc,        \* where each call of analyzeLogs stands
  lkLog,       \* extractLinksFromLogs: logs, as chunks
  lkMatches,   \* the matches of urlRegex, in order
  lkPos,       \* matches already handled
  lkFound,     \* found
  lkLinks,     \* links
  lkResult,    \* what extractLinksFromLogs returned
  lkPc,        \* where extractLinksFromLogs stands
  grLines,     \* extractGitRefsFromLogs: lines
  grPos,       \* the line the loop is at
  grRefs,      \* refs
  grSeen,      \* seen
  grResult,    \* what extractGitRefsFromLogs returned
  grPc,        \* where extractGitRefsFromLogs stands
  pcComments,  \* the bodies of the comments on the pull request, by id
  pcRuns,      \* the runs of the action on the pull request so far
  wnLogs,      \* the raw lines of one job's log
  wnPatterns,  \* the catalog given to analyzeLogs
  wnIndex,     \* what extractWarningsFromLogs returned
  wnAnalysis,  \* what analyzeLogs returned
  wnPc         \* which of the two have run

clVars == <<clRaw, clOnce, clTwice, clPass>>
ldVars == <<ldFile, ldUrl, ldResponse, ldLocal, ldRemote, ldResult, ldPc>>
anVars == <<anLogs, anPatterns, anResult, anPc>>
bpVars == <<bpLines, bpPos, bpParams, bpSeen, bpResult, bpPc>>
crVars == <<crLines, crPos, crRepo, crBranch, crCommit, crDepth, crRepos,
            crSeen, crResult, crPc>>
fsVars == <<fsLines, fsStepName, fsResult, fsPc>>
cbVars == <<cbKind, cbLines, cbPatterns, cbResult, cbPc>>
mjVars == <<mjLoaded, mjPatterns, mjLogs, mjLocals, mjResult, mjInfo, mjPc>>
lkVars == <<lkLog, lkMatches, lkPos, lkFound, lkLinks, lkResult, lkPc>>
grVars == <<grLines, grPos, grRefs, grSeen, grResult, grPc>>
pcVars == <<pcComments, pcRuns>>
wnVars == <<wnLogs, wnPatterns, wnIndex, wnAnalysis, wnPc>>
rnVars == <<rnPatterns, rnJobs, rnFailedJobName, rnFailedJobs, rnNext, rnOutputs, rnPath,
            rnPc>>

vars == <<clVars, ldVars, anVars, bpVars, crVars, fsVars, cbVars, rnVars,
          mjVars, lkVars, grVars, pcVars, wnVars>>

ClIdle ==
  /\ clRaw = <<>>
  /\ clOnce = <<>>
  /\ clTwice = <<>>
  /\ clPass = 0

NoFile == [kind |-> "missing", patterns |-> <<>>]
NoResponse == [kind |-> "network_error", patterns |-> <<>>]
NoResult == [kind |-> "none", patterns |-> <<>>]

LdIdle ==
  /\ ldFile = NoFile
  /\ ldUrl = FALSE
  /\ ldResponse = NoResponse
  /\ ldLocal = <<>>
  /\ ldRemote = <<>>
  /\ ldResult = NoResult
  /\ ldPc = "idle"

NoAnalysis == [kind |-> "none"]

AnIdle ==
  /\ anLogs = <<>>
  /\ anPatterns = <<>>
  /\ anResult = NoAnalysis
  /\ anPc = "idle"

BpIdle ==
  /\ bpLines = <<>>
  /\ bpPos = 0
  /\ bpParams = <<>>
  /\ bpSeen = {}
  /\ bpResult = <<>>
  /\ bpPc = "idle"

CrIdle ==
  /\ crLines = <<>>
  /\ crPos = 0
  /\ crRepo = <<>>
  /\ crBranch = <<>>
  /\ crCommit = <<>>
  /\ crDepth = <<>>
  /\ crRepos = <<>>
  /\ crSeen = {}
  /\ crResult = <<>>
  /\ crPc = "idle"

FsIdle ==
  /\ fsLines = <<>>
  /\ fsStepName = <<>>
  /\ fsResult = <<>>
  /\ fsPc = "idle"

CbIdle ==
  /\ cbKind = "none"
  /\ cbLines = <<>>
  /\ cbPatterns = <<>>
  /\ cbResult = <<>>
  /\ cbPc = "idle"

NoOutputs == [rootCause |-> "unset", matchedPattern |-> "unset",
              category |-> "unset"]

RnIdle ==
  /\ rnJobs = <<>>
  /\ rnPatterns = <<>>
  /\ rnFailedJobName = ""
  /\ rnFailedJobs = <<>>
  /\ rnNext = 0
  /\ rnOutputs = NoOutputs
  /\ rnPath = "none"
  /\ rnPc = "idle"

MjIdle ==
  /\ mjLoaded = <<>>
  /\ mjPatterns = <<>>
  /\ mjLogs = <<>>
  /\ mjLocals = <<>>
  /\ mjResult = <<>>
  /\ mjInfo = <<>>
  /\ mjPc = <<>>

LkIdle ==
  /\ lkLog = <<>>
  /\ lkMatches = <<>>
  /\ lkPos = 0
  /\ lkFound = {}
  /\ lkLinks = <<>>
  /\ lkResult = <<>>
  /\ lkPc = "idle"

GrIdle ==
  /\ grLines = <<>>
  /\ grPos = 0
  /\ grRefs = <<>>
  /\ grSeen = {}
  /\ grResult = <<>>
  /\ grPc = "idle"

PcIdle ==
  /\ pcComments = <<>>
  /\ pcRuns = 0

WnIdle ==
  /\ wnLogs = <<>>
  /\ wnPatterns = <<>>
  /\ wnIndex = <<>>
  /\ wnAnalysis = NoAnalysis
  /\ wnPc = {}

\* What each specification leaves alone: the variables of the other components.
ClOthersIdle == LdIdle /\ AnIdle /\ BpIdle /\ CrIdle /\ FsIdle /\ CbIdle /\
    RnIdle /\ MjIdle /\ LkIdle /\ GrIdle /\ PcIdle /\ WnIdle
ClFrame == UNCHANGED <<ldVars, anVars, bpVars, crVars, fsVars, cbVars,
    rnVars, mjVars, lkVars, grVars, pcVars, wnVars>>
LdOthersIdle == ClIdle /\ AnIdle /\ BpIdle /\ CrIdle /\ FsIdle /\ CbIdle /\
    RnIdle /\ MjIdle /\ LkIdle /\ GrIdle /\ PcIdle /\ WnIdle
LdFrame == UNCHANGED <<clVars, anVars, bpVars, crVars, fsVars, cbVars,
    rnVars, mjVars, lkVars, grVars, pcVars, wnVars>>
AnOthersIdle == ClIdle /\ LdIdle /\ BpIdle /\ CrIdle /\ FsIdle /\ CbIdle /\
    RnIdle /\ MjIdle /\ LkIdle /\ GrIdle /\ PcIdle /\ WnIdle
AnFrame == UNCHANGED <<clVars, ldVars, bpVars, crVars, fsVars, cbVars,
    rnVars, mjVars, lkVars, grVars, pcVars, wnVars>>
BpOthersIdle == ClIdle /\ LdIdle /\ AnIdle /\ CrIdle /\ FsIdle /\ CbIdle /\
    RnIdle /\ MjIdle /\ LkIdle /\ GrIdle /\ PcIdle /\ WnIdle
BpFrame == UNCHANGED <<clVars, ldVars, anVars, crVars, fsVars, cbVars,
    rnVars, mjVars, lkVars, grVars, pcVars, wnVars>>
CrOthersIdle == ClIdle /\ LdIdle /\ AnIdle /\ BpIdle /\ FsIdle /\ CbIdle /\
    RnIdle /\ MjIdle /\ LkIdle /\ GrIdle /\ PcIdle /\ WnIdle
CrFrame == UNCHANGED <<clVars, ldVars, anVars, bpVars, fsVars, cbVars,
    rnVars, mjVars, lkVars, grVars, pcVars, wnVars>>
FsOthersIdle == ClIdle /\ LdIdle /\ AnIdle /\ BpIdle /\ CrIdle /\ CbIdle /\
    RnIdle /\ MjIdle /\ LkIdle /\ GrIdle /\ PcIdle /\ WnIdle
FsFrame == UNCHANGED <<clVars, ldVars, anVars, bpVars, crVars, cbVars,
    rnVars, mjVars, lkVars, grVars, pcVars, wnVars>>
CbOthersIdle == ClIdle /\ LdIdle /\ AnIdle /\ BpIdle /\ CrIdle /\ FsIdle /\
    RnIdle /\ MjIdle /\ LkIdle /\ GrIdle /\ PcIdle /\ WnIdle
CbFrame == UNCHANGED <<clVars, ldVars, anVars, bpVars, crVars, fsVars,
    rnVars, mjVars, lkVars, grVars, pcVars, wnVars>>
RnOthersIdle == ClIdle /\ LdIdle /\ AnIdle /\ BpIdle /\ CrIdle /\ FsIdle /\
    CbIdle /\ MjIdle /\ LkIdle /\ GrIdle /\ PcIdle /\ WnIdle
RnFrame == UNCHANGED <<clVars, ldVars, anVars, bpVars, crVars, fsVars,
    cbVars, mjVars, lkVars, grVars, pcVars, wnVars>>
MjOthersIdle == ClIdle /\ LdIdle /\ AnIdle /\ BpIdle /\ CrIdle /\ FsIdle /\
    CbIdle /\ RnIdle /\ LkIdle /\ GrIdle /\ PcIdle /\ WnIdle
MjFrame == UNCHANGED <<clVars, ldVars, anVars, bpVars, crVars, fsVars,
    cbVars, rnVars, lkVars, grVars, pcVars, wnVars>>
LkOthersIdle == ClIdle /\ LdIdle /\ AnIdle /\ BpIdle /\ CrIdle /\ FsIdle /\
    CbIdle /\ RnIdle /\ MjIdle /\ GrIdle /\ PcIdle /\ WnIdle
LkFrame == UNCHANGED <<clVars, ldVars, anVars, bpVars, crVars, fsVars,
    cbVars, rnVars, mjVars, grVars, pcVars, wnVars>>
GrOthersIdle == ClIdle /\ LdIdle /\ AnIdle /\ BpIdle /\ CrIdle /\ FsIdle /\
    CbIdle /\ RnIdle /\ MjIdle /\ LkIdle /\ PcIdle /\ WnIdle
GrFrame == UNCHANGED <<clVars, ldVars, anVars, bpVars, crVars, fsVars,
    cbVars, rnVars, mjVars, lkVars, pcVars, wnVars>>
PcOthersIdle == ClIdle /\ LdIdle /\ AnIdle /\ BpIdle /\ CrIdle /\ FsIdle /\
    CbIdle /\ RnIdle /\ MjIdle /\ LkIdle /\ GrIdle /\ WnIdle
PcFrame == UNCHANGED <<clVars, ldVars, anVars, bpVars, crVars, fsVars,
    cbVars, rnVars, mjVars, lkVars, grVars, wnVars>>
WnOthersIdle == ClIdle /\ LdIdle /\ AnIdle /\ BpIdle /\ CrIdle /\ FsIdle /\
    CbIdle /\ RnIdle /\ MjIdle /\ LkIdle /\ GrIdle /\ PcIdle
WnFrame == UNCHANGED <<clVars, ldVars, anVars, bpVars, crVars, fsVars,
    cbVars, rnVars, mjVars, lkVars, grVars, pcVars>>

\* ============================================================ SpecClean
\* The raw lines: every sequence of at most MaxRawLen chunks.
CleanChunks == {"ts", "sp", "esc", "escL", "escR", "mk", "mkL", "mkR", "w"}

InitClean ==
  /\ clRaw \in SeqsUpTo(CleanChunks, MaxRawLen)
  /\ clOnce = <<>>
  /\ clTwice = <<>>
  /\ clPass = 0
  /\ ClOthersIdle

\* A consumer normalises the raw line.
Normalize ==
  /\ clPass = 0
  /\ clOnce' = cleanLine(clRaw)
  /\ clPass' = 1
  /\ UNCHANGED <<clRaw, clTwice>>
  /\ ClFrame

\* The normalised line is normalised again.
Renormalize ==
  /\ clPass = 1
  /\ clTwice' = cleanLine(clOnce)
  /\ clPass' = 2
  /\ UNCHANGED <<clRaw, clOnce>>
  /\ ClFrame

NextClean == Normalize \/ Renormalize

SpecClean == InitClean /\ [][NextClean]_vars

\* C4: line normalization is idempotent: cleanLine(cleanLine(r)) = cleanLine(r)
\* for every raw line r.
C4_CleanLineIdempotent == clPass = 2 => clTwice = clOnce


\* ============================================================= SpecLoad
\* ----------------------------------------------------- the pattern entries
\* An entry of patterns.json (interface ErrorPattern).  A pattern is a literal
\* word, or "(", which does not compile as a regular expression.  docsUrl is
\* optional: "undefined" stands for its absence.  priority is a field of the
\* file's entries (1-100, a higher number is a higher priority) that the
\* interface ErrorPattern does not declare.
PNpm ==
  [id |-> "npm-missing", category |-> "npm", pattern |-> "ENOENT", flags |-> "",
   rootCause |-> "Missing file", suggestion |-> "Check path",
   severity |-> "critical", docsUrl |-> "undefined", priority |-> 90]

\* A second definition of the id npm-missing, as a community file may hold.
PNpmCommunity ==
  [id |-> "npm-missing", category |-> "Node", pattern |-> "ERR!", flags |-> "",
   rootCause |-> "npm failed", suggestion |-> "Reinstall",
   severity |-> "info", docsUrl |-> "https://docs/npm", priority |-> 50]

PNet ==
  [id |-> "net-timeout", category |-> "Network", pattern |-> "timeout",
   flags |-> "i", rootCause |-> "Network timeout", suggestion |-> "Retry",
   severity |-> "warning", docsUrl |-> "https://docs/net", priority |-> 40]

PBroken ==
  [id |-> "broken", category |-> "Broken", pattern |-> "(", flags |-> "",
   rootCause |-> "Broken rule", suggestion |-> "Fix the rule",
   severity |-> "info", docsUrl |-> "undefined", priority |-> 10]

\* An entry whose category is the name of an inherited object property.
PShadow ==
  [id |-> "fatal-error", category |-> "constructor", pattern |-> "fatal",
   flags |-> "", rootCause |-> "Fatal error", suggestion |-> "Read the log",
   severity |-> "critical", docsUrl |-> "undefined", priority |-> 80]

LoadPool == {PNpm, PNpmCommunity, PNet, PBroken}

Ids(list) == {list[i].id : i \in 1..Len(list)}

\* ------------------------------------------------------ loadLocalPatterns
\* existsSync false: []; readFileSync/JSON.parse/parsed.patterns.length throw:
\* caught, []; otherwise parsed.patterns.
loadLocalPatterns(file) ==
  IF file.kind = "ok" THEN file.patterns ELSE <<>>

\* ---------------------------------------------------- fetchRemotePatterns
\* The body of the try block: fetch throws on a network error and when the 5 s
\* AbortSignal fires; a non-2xx response returns []; response.json() and
\* parsed.patterns.length throw on a malformed document.
fetchAttempt(resp) ==
  CASE resp.kind \in {"network_error", "timeout", "malformed"} ->
         [threw |-> TRUE, value |-> <<>>]
    [] resp.kind = "http_error" -> [threw |-> FALSE, value |-> <<>>]
    [] OTHER -> [threw |-> FALSE, value |-> resp.patterns]

fetchRemotePatterns_NoCatch(resp) == fetchAttempt(resp)

\* try { ... } catch (err) { core.warning(...); return [] }
fetchRemotePatterns(resp) ==
  LET r == fetchAttempt(resp)
  IN  IF r.threw THEN [threw |-> FALSE, value |-> <<>>] ELSE r

\* ----------------------------------------------------------- mergePatterns
mergePatterns_RemoteWins(local, remote) ==
  LET remoteIds == {remote[i].id : i \in 1..Len(remote)}
      localOnly == SelectSeq(local, LAMBDA p : p.id \notin remoteIds)
  IN  localOnly \o remote

mergePatterns(local, remote) ==
  LET localIds == {local[i].id : i \in 1..Len(local)}
      remoteOnly == SelectSeq(remote, LAMBDA p : p.id \notin localIds)
  IN  local \o remoteOnly

\* ------------------------------------------------------------ loadPatterns
Files ==
  {[kind |-> k, patterns |-> <<>>] : k \in {"missing", "corrupt"}}
  \cup {[kind |-> "ok", patterns |-> l] : l \in SeqsUpTo(LoadPool, MaxLocal)}

Responses ==
  {[kind |-> k, patterns |-> <<>>] :
     k \in {"network_error", "timeout", "http_error", "malformed"}}
  \cup {[kind |-> "ok", patterns |-> l] : l \in SeqsUpTo(LoadPool, MaxRemote)}

InitLoad ==
  /\ ldFile \in Files
  /\ ldUrl \in BOOLEAN
  /\ ldResponse \in Responses
  /\ ldLocal = <<>>
  /\ ldRemote = <<>>
  /\ ldResult = NoResult
  /\ ldPc = "start"
  /\ LdOthersIdle

\* const local = loadLocalPatterns()
LoadLocal ==
  /\ ldPc = "start"
  /\ ldLocal' = loadLocalPatterns(ldFile)
  /\ ldPc' = "loaded"
  /\ UNCHANGED <<ldFile, ldUrl, ldResponse, ldRemote, ldResult>>
  /\ LdFrame

\* if (remoteUrl) { const remote = await fetchRemotePatterns(remoteUrl)
FetchRemote ==
  /\ ldPc = "loaded"
  /\ ldUrl
  /\ LET r == fetchRemotePatterns(ldResponse)
     IN  IF r.threw
         THEN /\ ldResult' = [kind |-> "threw", patterns |-> <<>>]
              /\ ldPc' = "done"
              /\ UNCHANGED ldRemote
         ELSE /\ ldRemote' = r.value
              /\ ldPc' = "fetched"
              /\ UNCHANGED ldResult
  /\ UNCHANGED <<ldFile, ldUrl, ldResponse, ldLocal>>
  /\ LdFrame

\* return mergePatterns(local, remote) }
ReturnMerged ==
  /\ ldPc = "fetched"
  /\ ldResult' = [kind |-> "returned", patterns |-> mergePatterns(ldLocal, ldRemote)]
  /\ ldPc' = "done"
  /\ UNCHANGED <<ldFile, ldUrl, ldResponse, ldLocal, ldRemote>>
  /\ LdFrame

\* return local
ReturnLocal ==
  /\ ldPc = "loaded"
  /\ ~ldUrl
  /\ ldResult' = [kind |-> "returned", patterns |-> ldLocal]
  /\ ldPc' = "done"
  /\ UNCHANGED <<ldFile, ldUrl, ldResponse, ldLocal, ldRemote>>
  /\ LdFrame

NextLoad == LoadLocal \/ FetchRemote \/ ReturnMerged \/ ReturnLocal

SpecLoad == InitLoad /\ [][NextLoad]_vars


\* C3: loadPatterns with a remote URL returns local ++ (the remote entries whose
\* id is not the id of a local entry), each list in its own order; an id defined
\* in both sets is in the merged catalog with its local definition only.
C3_MergeLocalFirst ==
  (ldPc = "done" /\ ldUrl /\ ldResult.kind = "returned") =>
    LET m == ldResult.patterns
        keep == {j \in 1..Len(ldRemote) : ldRemote[j].id \notin Ids(ldLocal)}
    IN  /\ Len(m) = Len(ldLocal) + Cardinality(keep)
        /\ \A i \in 1..Len(ldLocal) : m[i] = ldLocal[i]
        /\ \A j \in keep :
             m[Len(ldLocal) + Cardinality({k \in keep : k <= j})] = ldRemote[j]
        /\ \A i \in 1..Len(m) :
             m[i].id \in (Ids(ldLocal) \cap Ids(ldRemote)) =>
               i <= Len(ldLocal) /\ m[i] = ldLocal[i]

\* A merge in which an id is defined on both sides with different definitions
\* and the remote list also brings an entry of its own.
C3_Witness ==
  /\ ldPc = "done" /\ ldUrl /\ ldResult.kind = "returned"
  /\ ldLocal = <<PNpm, PBroken>>
  /\ ldRemote = <<PNpmCommunity, PNet>>
  /\ ldResult.patterns = <<PNpm, PBroken, PNet>>

\* C8: when the remote fetch fails (network error, timeout, non-2xx status),
\* loadPatterns does not throw and returns exactly the local list, in order.
C8_RemoteFailureKeepsLocal ==
  (ldPc = "done" /\ ldUrl
     /\ ldResponse.kind \in {"network_error", "timeout", "http_error"}) =>
    /\ ldResult.kind = "returned"
    /\ ldResult.patterns = ldLocal
    /\ ldFile.kind = "ok" => ldResult.patterns = ldFile.patterns

\* The fetch timed out and the two local entries came back in their order.
C8_Witness ==
  /\ ldPc = "done" /\ ldUrl
  /\ ldResponse.kind = "timeout"
  /\ ldFile.kind = "ok"
  /\ ldFile.patterns = <<PNet, PNpm>>
  /\ ldResult = [kind |-> "returned", patterns |-> <<PNet, PNpm>>]

\* ======================================================== analyzeLogs
\* ------------------------------------------------- the words of a log line
\* The words the regular expressions of analyzeLogs tell apart, lower-cased
\* (the /i flag compares letters without their case).
CaseFold(c) ==
  CASE c = "ENOENT" -> "enoent"
    [] c = "TIMEOUT" -> "timeout"
    [] c = "ERR!" -> "err!"
    [] c = "FAIL" -> "fail"
    [] c = "WARN" -> "warn"
    [] OTHER -> c

\* /error|failed|fatal|exception|FAIL|ERR!/i
ErrorVocabulary == {"error", "failed", "fatal", "exception", "fail", "err!"}

IsErrorVocab(line) ==
  \E i \in 1..Len(line) : CaseFold(line[i]) \in ErrorVocabulary

\* /\bwarn(ing)?\b|WARN|⚠/i : with /i the alternative WARN finds the letters
\* warn anywhere, so "warnings" matches too; "warnsign" stands for ⚠.
WarnVocabulary == {"warn", "warning", "warnings", "warnsign"}

IsWarnVocab(line) ==
  \E i \in 1..Len(line) : CaseFold(line[i]) \in WarnVocabulary

\* /^\s*\d+\s+warn(ing)?s?\s*$/i : the whole line is a count of warnings
\* ("num" is a run of digits).
IsWarningCount(line) ==
  LET a == DropSpaces(line)
  IN  /\ Len(a) >= 3
      /\ a[1] = "num"
      /\ a[2] = "sp"
      /\ LET b == DropSpaces(Tail(a))
         IN  /\ b # <<>>
             /\ CaseFold(b[1]) \in {"warn", "warning", "warnings"}
             /\ DropSpaces(Tail(b)) = <<>>

\* new RegExp(p.pattern, p.flags) throws for a pattern that does not compile.
RegexCompiles(p) == p.pattern # "("

\* regex.test(line) for a literal pattern: the word occurs in the line, in any
\* case when the flags hold i.
RegexTest(p, line) ==
  \E i \in 1..Len(line) :
     \/ line[i] = p.pattern
     \/ p.flags = "i" /\ CaseFold(line[i]) = CaseFold(p.pattern)

Min(S) == CHOOSE x \in S : \A y \in S : x <= y
Max(S) == CHOOSE x \in S : \A y \in S : x >= y

\* ------------------------------------------- lines 419-431: the two passes
cleanedLines(rawLines) ==
  [i \in 1..Len(rawLines) |->
     [cleaned |-> cleanLine(rawLines[i]), lineNumber |-> i]]

CleanedTexts(cl) == [i \in 1..Len(cl) |-> cl[i].cleaned]

IsErrorLine(c) == c # <<>> /\ IsErrorVocab(c)

IsWarningLine_NoElse(c) ==
  c # <<>> /\ IsWarnVocab(c) /\ ~IsWarningCount(c)

\* else if (warn test && !count test)
IsWarningLine(c) ==
  c # <<>> /\ ~IsErrorVocab(c) /\ IsWarnVocab(c) /\ ~IsWarningCount(c)

errorLinesOf(cl) == SelectSeq(CleanedTexts(cl), IsErrorLine)
warningLinesOf(cl) == SelectSeq(CleanedTexts(cl), IsWarningLine)

\* ------------------------- categorizeErrorLines / categorizeWarningLines
\* The category of the first entry, in catalog order, whose regex compiles and
\* matches the line (an entry that does not compile is skipped by the catch);
\* the reserved bucket when there is none.
\* byCategory is a plain object ({}): for a category that names a property
\* every object inherits, byCategory[cat] is that inherited value, so the
\* bucket is not created and byCategory[cat].push throws a TypeError inside the
\* try block; the catch takes the entry for an invalid one and the loop goes on
\* to the next entry.
InheritedNames ==
  {"constructor", "__proto__", "toString", "valueOf", "hasOwnProperty"}

CategoryOf(line, patterns, reserved) ==
  LET hits == {k \in 1..Len(patterns) :
                 /\ RegexCompiles(patterns[k])
                 /\ RegexTest(patterns[k], line)
                 /\ patterns[k].category \notin InheritedNames}
  IN  IF hits = {} THEN reserved ELSE patterns[Min(hits)].category

categorizeLines(lines, patterns, reserved) ==
  LET cats == {CategoryOf(lines[i], patterns, reserved) : i \in 1..Len(lines)}
  IN  [c \in cats |->
         SelectSeq(lines, LAMBDA l : CategoryOf(l, patterns, reserved) = c)]

categorizeErrorLines(errorLines, patterns) ==
  categorizeLines(errorLines, patterns, "Other")

categorizeWarningLines(warningLines, patterns) ==
  categorizeLines(warningLines, patterns, "General")

\* ------------------------------------------- lines 439-470: the match loop
\* for (const p of patterns) { const regex = new RegExp(...)   -- may throw
\*   for (const { cleaned, lineNumber } of cleanedLines) { ... return } }
firstMatch_LinesFirst(patterns, cl) ==
  LET hit(i) == {k \in 1..Len(patterns) :
                   RegexCompiles(patterns[k])
                   /\ RegexTest(patterns[k], cl[i].cleaned)}
      lines == {i \in 1..Len(cl) : cl[i].cleaned # <<>> /\ hit(i) # {}}
  IN  IF \E k \in 1..Len(patterns) : ~RegexCompiles(patterns[k])
      THEN [kind |-> "threw", p |-> 0, idx |-> 0]
      ELSE IF lines = {} THEN [kind |-> "none", p |-> 0, idx |-> 0]
      ELSE [kind |-> "match", p |-> Min(hit(Min(lines))), idx |-> Min(lines)]

RECURSIVE matchFrom(_, _, _)
matchFrom(patterns, k, cl) ==
  IF k > Len(patterns) THEN [kind |-> "none", p |-> 0, idx |-> 0]
  ELSE IF ~RegexCompiles(patterns[k]) THEN [kind |-> "threw", p |-> 0, idx |-> 0]
  ELSE LET hits == {i \in 1..Len(cl) :
                      cl[i].cleaned # <<>> /\ RegexTest(patterns[k], cl[i].cleaned)}
       IN  IF hits # {}
           THEN [kind |-> "match", p |-> k, idx |-> Min(hits)]
           ELSE matchFrom(patterns, k + 1, cl)

firstMatch(patterns, cl) == matchFrom(patterns, 1, cl)

\* .filter(Boolean): the empty lines are dropped.
NonEmpty(c) == c # <<>>

\* The last two non-empty lines before line i, however far away.
contextBeforeOf_Nearest(cl, i) ==
  LET before == SelectSeq(SubSeq(CleanedTexts(cl), 1, i - 1), NonEmpty)
  IN  SubSeq(before, IF Len(before) > 2 THEN Len(before) - 1 ELSE 1, Len(before))

\* cleanedLines.slice(Math.max(0, idx - 2), idx), idx being 0-based.
contextBeforeOf(cl, i) ==
  SelectSeq(SubSeq(CleanedTexts(cl), IF i - 2 > 1 THEN i - 2 ELSE 1, i - 1),
            NonEmpty)

\* cleanedLines.slice(idx + 1, Math.min(cleanedLines.length, idx + 3))
contextAfterOf(cl, i) ==
  SelectSeq(SubSeq(CleanedTexts(cl), i + 1,
                   IF i + 2 < Len(cl) THEN i + 2 ELSE Len(cl)),
            NonEmpty)

signatureFields_FixedSeverity(p) ==
  [rootCause |-> p.rootCause, suggestion |-> p.suggestion,
   severity |-> "critical", matchedPattern |-> p.id,
   category |-> p.category, docsUrl |-> p.docsUrl]

\* rootCause: p.rootCause, suggestion: p.suggestion, severity: p.severity,
\* matchedPattern: p.id, category: p.category, docsUrl: p.docsUrl
signatureFields(p) ==
  [rootCause |-> p.rootCause, suggestion |-> p.suggestion,
   severity |-> p.severity, matchedPattern |-> p.id,
   category |-> p.category, docsUrl |-> p.docsUrl]

FallbackRootCause == "Unknown failure - could not automatically detect root cause"
FallbackSuggestion == "Review the error lines below. Consider adding a custom pattern to patterns.json to handle this error in future runs."

fallbackFields ==
  [rootCause |-> FallbackRootCause, suggestion |-> FallbackSuggestion,
   severity |-> "warning", matchedPattern |-> "none",
   category |-> "Unknown", docsUrl |-> "undefined"]

fallbackContextAfter_FromFirst(errorLines) ==
  SubSeq(errorLines, 1, IF Len(errorLines) < 2 THEN Len(errorLines) ELSE 2)

\* errorLines.slice(1, 3)
fallbackContextAfter(errorLines) ==
  SubSeq(errorLines, 2, IF Len(errorLines) < 3 THEN Len(errorLines) ELSE 3)

Threw == [kind |-> "threw"]

\* Lines 435-490: what analyzeLogs does with the error and warning lines it
\* has collected.
finishAnalysis(rawLines, patterns, errorLines, warningLines) ==
  LET cl == cleanedLines(rawLines)
      common ==
        [kind |-> "ok",
         errorLines |-> errorLines,
         errorLinesByCategory |-> categorizeErrorLines(errorLines, patterns),
         warningLines |-> warningLines,
         warningLinesByCategory |-> categorizeWarningLines(warningLines, patterns),
         totalLines |-> Len(rawLines)]
      m == firstMatch(patterns, cl)
  IN  CASE m.kind = "threw" -> Threw
        [] m.kind = "match" ->
             common @@ signatureFields(patterns[m.p]) @@
             [exactMatchLine |-> cl[m.idx].cleaned,
              exactMatchLineNumber |-> cl[m.idx].lineNumber,
              contextBefore |-> contextBeforeOf(cl, m.idx),
              contextAfter |-> contextAfterOf(cl, m.idx)]
        [] OTHER ->
             common @@ fallbackFields @@
             [exactMatchLine |-> IF errorLines # <<>> THEN errorLines[1] ELSE <<>>,
              exactMatchLineNumber |-> 0,
              contextBefore |-> <<>>,
              contextAfter |-> fallbackContextAfter(errorLines)]

analyzeLogs(rawLines, patterns) ==
  finishAnalysis(rawLines, patterns,
                 errorLinesOf(cleanedLines(rawLines)),
                 warningLinesOf(cleanedLines(rawLines)))

\* ------------------------------------------------------------------ Spec
\* The raw lines of the logs: a blank line; a line that normalises to nothing;
\* "npm ERR! code ENOENT" behind its timestamp and marker; a line that holds
\* enoent in lower case only; a warning about a TIMEOUT; a count of warnings; a
\* line with both an error word and a warning word; a fatal timeout.
LogLines ==
  { <<>>,
    <<"ts", "sp", "mk">>,
    <<"ts", "sp", "mk", "npm", "sp", "ERR!", "sp", "code", "sp", "ENOENT">>,
    <<"ts", "sp", "enoent">>,
    <<"ts", "sp", "mk", "warning", "sp", "TIMEOUT">>,
    <<"num", "sp", "warnings">>,
    <<"error", "sp", "warning">>,
    <<"fatal", "sp", "timeout">> }

\* logs.split('\n') has at least one line.
Logs == UNION {[1..n -> LogLines] : n \in 1..MaxLogLines}

AnalysisPool == {PNpm, PNpmCommunity, PNet, PBroken}

\* The catalogs: the lists of distinct entries of the pool.
Catalogs ==
  {c \in SeqsUpTo(AnalysisPool, MaxCatalog) :
     \A i, j \in 1..Len(c) : i # j => c[i] # c[j]}

InitAnalyze ==
  /\ anLogs \in Logs
  /\ anPatterns \in Catalogs
  /\ anResult = NoAnalysis
  /\ anPc = "start"
  /\ AnOthersIdle

\* const analysis = await analyzeLogs(logs, patterns, failedStep)
Analyze ==
  /\ anPc = "start"
  /\ anResult' = analyzeLogs(anLogs, anPatterns)
  /\ anPc' = "done"
  /\ UNCHANGED <<anLogs, anPatterns>>
  /\ AnFrame

Next == Analyze

Spec == InitAnalyze /\ [][Next]_vars

\* ----------------------------------------------------- claims on analyzeLogs
Returned == anPc = "done" /\ anResult.kind = "ok"

\* The non-empty normalised lines, by raw position, that entry k matches.
LinesMatching(k) ==
  {i \in 1..Len(anLogs) :
     /\ cleanLine(anLogs[i]) # <<>>
     /\ RegexTest(anPatterns[k], cleanLine(anLogs[i]))}

MatchingEntries ==
  {k \in 1..Len(anPatterns) :
     RegexCompiles(anPatterns[k]) /\ LinesMatching(k) # {}}

AllCompile == \A k \in 1..Len(anPatterns) : RegexCompiles(anPatterns[k])

C2_SignatureOrFallback ==
  Returned =>
    LET fields == [f \in DOMAIN fallbackFields |-> anResult[f]]
    IN  \/ \E k \in 1..Len(anPatterns) :
             /\ fields.matchedPattern = anPatterns[k].id
             /\ fields.rootCause = anPatterns[k].rootCause
             /\ fields.suggestion = anPatterns[k].suggestion
             /\ fields.severity = anPatterns[k].severity
             /\ fields.category = anPatterns[k].category
             /\ fields.docsUrl = anPatterns[k].docsUrl
        \/ /\ fields.matchedPattern = "none"
           /\ fields.rootCause = FallbackRootCause
           /\ fields.suggestion = FallbackSuggestion
           /\ fields.severity = "warning"
           /\ fields.category = "Unknown"

\* An entry with severity info and a docs link is the one matched, in a catalog
\* that defines the same id a second time.
C2_Witness ==
  /\ Returned
  /\ anPatterns = <<PNpmCommunity, PNpm>>
  /\ anResult.matchedPattern = "npm-missing"
  /\ anResult.severity = "info"
  /\ anResult.docsUrl = "https://docs/npm"

\* C5: errorLines and warningLines are disjoint, and no warning line matches
\* the error vocabulary.
C5_ErrorWarningDisjoint ==
  Returned =>
    /\ Range(anResult.errorLines) \cap Range(anResult.warningLines) = {}
    /\ \A w \in Range(anResult.warningLines) : ~IsErrorVocab(w)

\* A log with an error line that also holds a warning word, and a warning line.
C5_Witness ==
  /\ Returned
  /\ <<"error", "sp", "warning">> \in Range(anResult.errorLines)
  /\ anResult.warningLines # <<>>

\* C7: a catalog entry whose pattern does not compile is skipped: analyzeLogs
\* still returns a result, the one computed from the remaining entries.
C7_InvalidEntrySkipped ==
  (anPc = "done" /\ ~AllCompile) =>
    /\ anResult.kind = "ok"
    /\ anResult = analyzeLogs(anLogs, SelectSeq(anPatterns, RegexCompiles))

\* The positions of the detected error lines.
ErrorPositions ==
  {i \in 1..Len(anLogs) :
     cleanLine(anLogs[i]) # <<>> /\ IsErrorVocab(cleanLine(anLogs[i]))}

\* The n-th detected error line (n >= 1), when there are that many.
NthErrorLine(n) ==
  LET i == CHOOSE j \in ErrorPositions :
             Cardinality({h \in ErrorPositions : h <= j}) = n
  IN  cleanLine(anLogs[i])

\* C10: when no entry matches any line, exactMatchLine is the first detected
\* error line (the empty string when there is none), exactMatchLineNumber is 0,
\* contextBefore is empty and contextAfter holds the second and third detected
\* error lines (fewer when fewer exist).
C10_FallbackLines ==
  (Returned /\ MatchingEntries = {}) =>
    LET n == Cardinality(ErrorPositions)
    IN  /\ anResult.matchedPattern = "none"
        /\ anResult.exactMatchLine = IF n = 0 THEN <<>> ELSE NthErrorLine(1)
        /\ anResult.exactMatchLineNumber = 0
        /\ anResult.contextBefore = <<>>
        /\ anResult.contextAfter =
             [j \in 1..(IF n >= 3 THEN 2 ELSE IF n = 2 THEN 1 ELSE 0) |->
                NthErrorLine(j + 1)]

\* Three different error lines, none matched by the catalog.
C10_Witness ==
  /\ Returned
  /\ anPatterns = <<PNpm>>
  /\ MatchingEntries = {}
  /\ Len(anLogs) = 3
  /\ anResult.exactMatchLine = <<"fatal", "sp", "timeout">>
  /\ anResult.contextAfter = << <<"error", "sp", "warning">>, <<"fatal", "sp", "timeout">> >>

\* ----------------------------------------------------------------- C16
\* C16: patterns are matched by priority: when more than one catalog pattern
\* matches lines of a log, the pattern with the higher priority is the one
\* reported as matched, whatever its position in the catalog.
C16_HigherPriorityWins ==
  (Returned /\ AllCompile /\ MatchingEntries # {}) =>
    \A k \in MatchingEntries :
      \A j \in 1..Len(anPatterns) :
        (anPatterns[j].id = anResult.matchedPattern
         /\ anPatterns[j].rootCause = anResult.rootCause)
          => anPatterns[j].priority >= anPatterns[k].priority

\* ================================================== extractBuildParams
\* The chunks of a build-parameter line, besides "sp", "ts" and "mk":
\*   words       BUILD_MODE API_TOKEN DB_PASSWORD NODE_ENV NODE_OPTIONS
\*               (upper case), version auth_mode npm_config_registry (lower
\*               case), export docker mvn prod pre hello, and *** (the
\*               redaction marker)
\*   punctuation "=", ":", "::", "'"
\*   phrases     "Input '", "' has been set to '", "--build-arg", "-D",
\*               "::set-env name=", "::set-output name=", "with:", "env:"

\* [A-Z][A-Z0-9_]{2,} and [A-Z][A-Z0-9_]+
UpperKeys == {"BUILD_MODE", "API_TOKEN", "DB_PASSWORD", "NODE_ENV", "NODE_OPTIONS"}

\* [A-Za-z_][A-Za-z0-9_]* and [A-Za-z_][A-Za-z0-9_.]+
Identifiers ==
  UpperKeys \cup {"version", "auth_mode", "npm_config_registry",
                  "export", "docker", "mvn", "prod", "pre", "hello"}

\* [A-Za-z_-]+
AlphaWords == Identifiers

\* The chunks that hold a quote, for [^']; the chunks that hold a colon, for [^:].
QuoteChunks == {"Input '", "' has been set to '", "'"}
ColonChunks == {":", "::", "::set-env name=", "::set-output name=", "with:", "env:"}

NoMatch == [hit |-> FALSE, key |-> <<>>, value |-> <<>>]
Match(k, v) == [hit |-> TRUE, key |-> k, value |-> v]

\* \S+ : the chunks up to the next whitespace.
RECURSIVE NonSpaceRun(_)
NonSpaceRun(s) ==
  IF s = <<>> \/ Head(s) = "sp" THEN <<>>
  ELSE <<Head(s)>> \o NonSpaceRun(Tail(s))

From(s, i) == SubSeq(s, i, Len(s))

\* The first position after `from` that holds a chunk of `set`; 0 when none.
NextIn(line, from, set) ==
  LET at == {k \in (from + 1)..Len(line) : line[k] \in set}
  IN  IF at = {} THEN 0 ELSE Min(at)

\* /^(?:export\s+)?([A-Z][A-Z0-9_]{2,})=(.+)$/
MatchEnvAssign(line) ==
  LET body == IF Len(line) >= 2 /\ line[1] = "export" /\ line[2] = "sp"
              THEN DropSpaces(Tail(line)) ELSE line
  IN  IF Len(body) >= 3 /\ body[1] \in UpperKeys /\ body[2] = "="
      THEN Match(<<body[1]>>, From(body, 3)) ELSE NoMatch

\* /Input '([^']+)' has been set to '([^']*)'$/
MatchInput(line) ==
  LET ok(i) ==
        /\ line[i] = "Input '"
        /\ LET j == NextIn(line, i, QuoteChunks)
           IN  /\ j >= i + 2
               /\ line[j] = "' has been set to '"
               /\ NextIn(line, j, QuoteChunks) = Len(line)
               /\ line[Len(line)] = "'"
      at == {i \in 1..Len(line) : ok(i)}
  IN  IF at = {} THEN NoMatch
      ELSE LET i == Min(at)
               j == NextIn(line, i, QuoteChunks)
           IN  Match(SubSeq(line, i + 1, j - 1), SubSeq(line, j + 1, Len(line) - 1))

\* /--build-arg\s+([A-Za-z_][A-Za-z0-9_]*)=(\S+)/
MatchBuildArg(line) ==
  LET rest(i) == DropSpaces(From(line, i + 1))
      ok(i) ==
        /\ line[i] = "--build-arg"
        /\ i < Len(line) /\ line[i + 1] = "sp"
        /\ Len(rest(i)) >= 3
        /\ rest(i)[1] \in Identifiers
        /\ rest(i)[2] = "="
        /\ rest(i)[3] # "sp"
      at == {i \in 1..Len(line) : ok(i)}
  IN  IF at = {} THEN NoMatch
      ELSE LET r == rest(Min(at))
           IN  Match(<<r[1]>>, NonSpaceRun(From(r, 3)))

\* /-D([A-Za-z_][A-Za-z0-9_.]+)=(\S+)/
MatchDProperty(line) ==
  LET ok(i) ==
        /\ line[i] = "-D"
        /\ i + 3 <= Len(line)
        /\ line[i + 1] \in Identifiers
        /\ line[i + 2] = "="
        /\ line[i + 3] # "sp"
      at == {i \in 1..Len(line) : ok(i)}
  IN  IF at = {} THEN NoMatch
      ELSE LET i == Min(at)
           IN  Match(<<line[i + 1]>>, NonSpaceRun(From(line, i + 3)))

\* /^(npm_config_[A-Za-z_]+|NODE_ENV|NODE_OPTIONS)=(.+)$/
MatchNodeEnv(line) ==
  IF /\ Len(line) >= 3
     /\ line[1] \in {"npm_config_registry", "NODE_ENV", "NODE_OPTIONS"}
     /\ line[2] = "="
  THEN Match(<<line[1]>>, From(line, 3)) ELSE NoMatch

\* /::set-env name=([^:]+)::(.*)$/ and /::set-output name=([^:]+)::(.*)$/
MatchSetCommand(line, command) ==
  LET ok(i) ==
        /\ line[i] = command
        /\ LET j == NextIn(line, i, ColonChunks)
           IN  j >= i + 2 /\ line[j] = "::"
      at == {i \in 1..Len(line) : ok(i)}
  IN  IF at = {} THEN NoMatch
      ELSE LET i == Min(at)
               j == NextIn(line, i, ColonChunks)
           IN  Match(SubSeq(line, i + 1, j - 1), From(line, j + 1))

\* /^\s+with:\s+([A-Za-z_-]+):\s+(.+)$/ and /^\s+env:\s+([A-Z][A-Z0-9_]+):\s+(.+)$/
MatchStepBlock(line, word, keys) ==
  LET a == DropSpaces(line)
      b == IF a = <<>> THEN <<>> ELSE DropSpaces(Tail(a))
      c == IF Len(b) < 2 THEN <<>> ELSE DropSpaces(From(b, 3))
  IN  IF /\ line # <<>> /\ line[1] = "sp"
         /\ a # <<>> /\ a[1] = word
         /\ Len(a) >= 2 /\ a[2] = "sp"
         /\ Len(b) >= 3 /\ b[1] \in keys /\ b[2] = ":" /\ b[3] = "sp"
         /\ c # <<>>
      THEN Match(<<b[1]>>, c) ELSE NoMatch

\* const matchers = [ ... ] : the nine matchers, in their listed order.
NumMatchers == 9

Matcher(n, line) ==
  CASE n = 1 -> MatchEnvAssign(line)
    [] n = 2 -> MatchInput(line)
    [] n = 3 -> MatchBuildArg(line)
    [] n = 4 -> MatchDProperty(line)
    [] n = 5 -> MatchNodeEnv(line)
    [] n = 6 -> MatchSetCommand(line, "::set-env name=")
    [] n = 7 -> MatchSetCommand(line, "::set-output name=")
    [] n = 8 -> MatchStepBlock(line, "with:", AlphaWords)
    [] OTHER -> MatchStepBlock(line, "env:", UpperKeys)

MatcherSource(n) ==
  CASE n \in {1, 5, 6, 9} -> "env"
    [] n \in {2, 8} -> "input"
    [] n \in {3, 4} -> "cli-flag"
    [] OTHER -> "output"

\* ---------------------------------------------------------- looksLikeSecret
\* The credential-looking words a chunk holds, as written.
SecretWordsOf(c) ==
  CASE c = "API_TOKEN" -> {"TOKEN"}
    [] c = "DB_PASSWORD" -> {"PASSWORD"}
    [] c = "auth_mode" -> {"auth"}
    [] OTHER -> {}

LowerCase(w) ==
  CASE w = "TOKEN" -> "token"
    [] w = "PASSWORD" -> "password"
    [] OTHER -> w

\* /token|secret|password|passwd|api_key|apikey|auth|credential|private/i
secretKeywords ==
  {"token", "secret", "password", "passwd", "api_key", "apikey", "auth",
   "credential", "private"}

looksLikeSecret_CaseSensitive(key, value) ==
  \/ \E i \in 1..Len(key) : SecretWordsOf(key[i]) \cap secretKeywords # {}
  \/ value = <<"***">>
  \/ "***" \in Range(value)

looksLikeSecret(key, value) ==
  \/ \E i \in 1..Len(key) :
       \E w \in SecretWordsOf(key[i]) : LowerCase(w) \in secretKeywords
  \/ value = <<"***">>
  \/ "***" \in Range(value)

\* const uid = `${key}=${value}`
ParamUid_KeyOnly(key, value) == key

ParamUid(key, value) == key \o <<"=">> \o value

\* The first matcher, in the listed order, that matches the line; 0 when none.
\* The last matcher that matches, as if the loop went on after a match.
FirstMatcher_Last(line) ==
  LET hits == {n \in 1..NumMatchers : Matcher(n, line).hit}
  IN  IF hits = {} THEN 0 ELSE Max(hits)

FirstMatcher(line) ==
  LET hits == {n \in 1..NumMatchers : Matcher(n, line).hit}
  IN  IF hits = {} THEN 0 ELSE Min(hits)

\* return params.slice(0, 30)
ParamCap == 30

\* --------------------------------------------------------------- SpecParams
\* The raw lines of the logs of this specification.
ParamLines ==
  { <<"ts", "sp", "BUILD_MODE", "=", "prod">>,
    <<"export", "sp", "API_TOKEN", "=", "prod">>,
    <<"BUILD_MODE", "=", "***">>,
    <<"NODE_ENV", "=", "prod">>,
    <<"Input '", "version", "' has been set to '", "prod", "'">>,
    <<"docker", "sp", "--build-arg", "sp", "auth_mode", "=", "prod", "sp",
      "-D", "version", "=", "pre", "***">>,
    <<"mvn", "sp", "-D", "version", "=", "pre", "***">>,
    <<"npm_config_registry", "=", "prod">>,
    <<"::set-env name=", "DB_PASSWORD", "::", "prod">>,
    <<"::set-output name=", "version", "::", "prod">>,
    <<"sp", "sp", "with:", "sp", "version", ":", "sp", "prod">>,
    <<"sp", "sp", "env:", "sp", "BUILD_MODE", ":", "sp", "prod">>,
    <<"ts", "sp", "mk">>,
    <<"hello">> }

ParamLogs == SeqsUpTo(ParamLines, MaxParamLines)

\* The long logs, which hold more pairs than extractBuildParams returns: n
\* lines BUILD_MODE=1, BUILD_MODE=2, ... where line d, when there is one,
\* repeats line 1.
LongParamLine(i, d) ==
  <<"ts", "sp", "BUILD_MODE", "=", ToString(IF i = d THEN 1 ELSE i)>>

LongParamLogs ==
  {[i \in 1..n |-> LongParamLine(i, d)] :
     n \in (ParamCap - 1)..MaxLongParamLines, d \in {0, 2, ParamCap + 1}}

\* Two Input lines whose pairs differ and whose texts key=value are the same:
\* version=pre with prod, and version with pre=prod.
SameTextLogs ==
  LET a == <<"Input '", "version", "=", "pre", "' has been set to '", "prod", "'">>
      b == <<"Input '", "version", "' has been set to '", "pre", "=", "prod", "'">>
  IN  {<<a, b>>, <<b, a>>}

InitParams ==
  /\ bpLines \in ParamLogs \cup LongParamLogs \cup SameTextLogs
  /\ bpPos = 1
  /\ bpParams = <<>>
  /\ bpSeen = {}
  /\ bpResult = <<>>
  /\ bpPc = "scan"
  /\ BpOthersIdle

\* One turn of for (const raw of lines).
ScanParamLine ==
  /\ bpPc = "scan"
  /\ bpPos <= Len(bpLines)
  /\ LET line == cleanLine(bpLines[bpPos])
         n == FirstMatcher(line)
         m == Matcher(n, line)
         uid == ParamUid(m.key, m.value)
     IN  IF line # <<>> /\ n # 0 /\ uid \notin bpSeen
            /\ ~looksLikeSecret(m.key, m.value)
         THEN /\ bpSeen' = bpSeen \cup {uid}
              /\ bpParams' = Append(bpParams,
                   [key |-> m.key, value |-> m.value, source |-> MatcherSource(n)])
         ELSE UNCHANGED <<bpSeen, bpParams>>
  /\ bpPos' = bpPos + 1
  /\ UNCHANGED <<bpLines, bpResult, bpPc>>
  /\ BpFrame

\* return params.slice(0, 30)
ReturnParams ==
  /\ bpPc = "scan"
  /\ bpPos > Len(bpLines)
  /\ bpResult' = SubSeq(bpParams, 1,
                        IF Len(bpParams) < ParamCap THEN Len(bpParams) ELSE ParamCap)
  /\ bpPc' = "done"
  /\ UNCHANGED <<bpLines, bpPos, bpParams, bpSeen>>
  /\ BpFrame

NextParams == ScanParamLine \/ ReturnParams

SpecParams == InitParams /\ [][NextParams]_vars

\* The words of the claim's credential list that a key holds, in any case.
CredentialWords ==
  {"token", "secret", "password", "api_key", "auth", "credential", "private"}

KeyIsCredentialLike(key) ==
  \E i \in 1..Len(key) :
     \E w \in SecretWordsOf(key[i]) : LowerCase(w) \in CredentialWords

\* C6: extractBuildParams returns no pair whose key contains, in any case, one
\* of token, secret, password, api_key, auth, credential, private, and no pair
\* whose value contains ***.
C6_NoCredentialPairs ==
  \A i \in 1..Len(bpResult) :
     /\ ~KeyIsCredentialLike(bpResult[i].key)
     /\ "***" \notin Range(bpResult[i].value)

\* A log with an upper-case credential key, a redacted value and an ordinary
\* pair has been scanned: only the ordinary pair is returned.
C6_Witness ==
  /\ bpPc = "done"
  /\ <<"export", "sp", "API_TOKEN", "=", "prod">> \in Range(bpLines)
  /\ <<"mvn", "sp", "-D", "version", "=", "pre", "***">> \in Range(bpLines)
  /\ bpResult = << [key |-> <<"BUILD_MODE">>, value |-> <<"prod">>, source |-> "env"] >>

\* ----------------------------------------------------------------- C13
\* The pair that line i gives: the captures of the first matcher that matches
\* its normalised text.
PairAt(i) ==
  LET line == cleanLine(bpLines[i])
  IN  Matcher(FirstMatcher(line), line)

\* Line i gives a pair that is not credential-like.
GivesPair(i) ==
  LET line == cleanLine(bpLines[i])
  IN  /\ line # <<>>
      /\ FirstMatcher(line) # 0
      /\ ~KeyIsCredentialLike(PairAt(i).key)
      /\ "***" \notin Range(PairAt(i).value)

\* The text key=value of a pair.
PairText(m) == m.key \o <<"=">> \o m.value

\* What each line gives, computed once.
PairsOfLog ==
  [i \in 1..Len(bpLines) |->
     [gives |-> GivesPair(i), pair |-> PairAt(i), text |-> PairText(PairAt(i))]]

\* The lines where a key=value text appears for the first time.
FirstAppearancesIn(ps) ==
  {i \in DOMAIN ps :
     /\ ps[i].gives
     /\ \A j \in 1..(i - 1) : ps[j].gives => ps[j].text # ps[i].text}

FirstAppearances == FirstAppearancesIn(PairsOfLog)

ReportedTotal(output) == Len(output)

\* C14: whenever an extractor truncates its collection to its cap (build
\* params 30), its output reports the true total number of items found
\* alongside the shown subset.
C14_TruncationReportsTotal ==
  (bpPc = "done" /\ Len(bpParams) > ParamCap) =>
    ReportedTotal(bpResult) = Len(bpParams)

\* ================================================== extractClonedRepos
\* The chunks of a checkout line, besides "sp", "ts" and "mk":
\*   phrases  "Syncing repository:", "Setting up auth", "Checking out",
\*            "checking out", "ref:", "HEAD is now at", "fetch-depth:",
\*            "https://github.com/", "refs/heads/", "refs/tags/", "refs/pull/"
\*   words    git clone fetch origin for hello, the options --depth --quiet,
\*            the repositories acme/widgets acme/tools, the suffixes .git and
\*            /merge, the branches main dev, the tag v1, the commit abc1234,
\*            the numbers 0 1 7, and "=", "'"
\* A captured text is the sequence of its chunks; <<>> is the empty string.

\* --[^\s]+ ; startsWith('-')
OptionChunks == {"--depth", "--quiet"}

\* includes('/')
SlashChunks ==
  {"acme/widgets", "acme/tools", "https://github.com/", "refs/heads/",
   "refs/tags/", "refs/pull/", "/merge"}

\* \d+
Digits == {"0", "1", "7"}

\* [a-f0-9]{7,40}
HexShas == {"abc1234"}

\* [^\s'"]
RepoStops == {"sp", "'"}

RefsChunks == {"refs/heads/", "refs/tags/", "refs/pull/"}

NoCapture == [hit |-> FALSE, cap |-> <<>>]
Capture(c) == [hit |-> TRUE, cap |-> c]

\* The chunks up to the first one of `stops`.
RECURSIVE RunUntil(_, _)
RunUntil(s, stops) ==
  IF s = <<>> \/ Head(s) \in stops THEN <<>>
  ELSE <<Head(s)>> \o RunUntil(Tail(s), stops)

\* .replace(/\.git$/, '')
StripDotGit(c) ==
  IF c # <<>> /\ c[Len(c)] = ".git" THEN SubSeq(c, 1, Len(c) - 1) ELSE c

\* line.match(/Syncing repository:\s+(\S+)/)
syncMatchOf(line) ==
  LET at == {i \in 1..Len(line) :
               /\ line[i] = "Syncing repository:"
               /\ i < Len(line) /\ line[i + 1] = "sp"
               /\ DropSpaces(From(line, i + 1)) # <<>>}
  IN  IF at = {} THEN NoCapture
      ELSE Capture(NonSpaceRun(DropSpaces(From(line, Min(at) + 1))))

\* line.match(/Setting up auth.*github\.com\/([^\s'"]+)/) : .* is greedy, the
\* last github.com/ that a repository text follows is the one taken.
authMatchOf(line) ==
  LET starts == {i \in 1..Len(line) : line[i] = "Setting up auth"}
      hosts == {j \in 1..Len(line) :
                  /\ starts # {} /\ j > Min(starts)
                  /\ line[j] = "https://github.com/"
                  /\ RunUntil(From(line, j + 1), RepoStops) # <<>>}
  IN  IF hosts = {} THEN NoCapture
      ELSE Capture(RunUntil(From(line, Max(hosts) + 1), RepoStops))

\* line.match(/[Cc]hecking out (?:ref:\s*)?refs\/(heads|tags|pull)\/(\S+)/)
RefTarget(line, i) ==
  IF i + 2 <= Len(line) /\ line[i + 2] = "ref:"
  THEN DropSpaces(From(line, i + 3))
  ELSE From(line, i + 2)

refMatchOf(line) ==
  LET at == {i \in 1..Len(line) :
               /\ line[i] \in {"Checking out", "checking out"}
               /\ i < Len(line) /\ line[i + 1] = "sp"
               /\ LET t == RefTarget(line, i)
                  IN  /\ t # <<>> /\ t[1] \in RefsChunks
                      /\ NonSpaceRun(Tail(t)) # <<>>}
  IN  IF at = {} THEN [hit |-> FALSE, refType |-> "", refName |-> <<>>]
      ELSE LET t == RefTarget(line, Min(at))
           IN  [hit |-> TRUE,
                refType |-> CASE t[1] = "refs/heads/" -> "heads"
                              [] t[1] = "refs/tags/" -> "tags"
                              [] OTHER -> "pull",
                refName |-> NonSpaceRun(Tail(t))]

\* refName.replace('/merge', '') : the first occurrence is removed.
RECURSIVE RemoveFirstMerge(_)
RemoveFirstMerge(c) ==
  IF c = <<>> THEN <<>>
  ELSE IF Head(c) = "/merge" THEN Tail(c)
  ELSE <<Head(c)>> \o RemoveFirstMerge(Tail(c))

\* if (refType === 'heads') ... else if 'tags' ... else if 'pull' ...
branchOfRef(m) ==
  CASE m.refType = "heads" -> m.refName
    [] m.refType = "tags" -> <<"tag: ">> \o m.refName
    [] OTHER -> <<"PR #">> \o RemoveFirstMerge(m.refName)

\* line.match(/HEAD is now at\s+([a-f0-9]{7,40})/)
headMatchOf(line) ==
  LET at == {i \in 1..Len(line) :
               /\ line[i] = "HEAD is now at"
               /\ i < Len(line) /\ line[i + 1] = "sp"
               /\ LET r == DropSpaces(From(line, i + 1))
                  IN  r # <<>> /\ r[1] \in HexShas}
  IN  IF at = {} THEN NoCapture
      ELSE Capture(<<DropSpaces(From(line, Min(at) + 1))[1]>>)

\* line.match(/--depth[= ](\d+)/)
depthMatchOf(line) ==
  LET at == {i \in 1..Len(line) :
               /\ line[i] = "--depth"
               /\ i + 2 <= Len(line)
               /\ line[i + 1] \in {"=", "sp"}
               /\ line[i + 2] \in Digits}
  IN  IF at = {} THEN NoCapture ELSE Capture(<<line[Min(at) + 2]>>)

\* line.match(/fetch-depth:\s*(\d+)/)
fetchDepthInputOf(line) ==
  LET at == {i \in 1..Len(line) :
               /\ line[i] = "fetch-depth:"
               /\ LET r == DropSpaces(From(line, i + 1))
                  IN  r # <<>> /\ r[1] \in Digits}
  IN  IF at = {} THEN NoCapture
      ELSE Capture(<<DropSpaces(From(line, Min(at) + 1))[1]>>)

\* (?:--[^\s]+\s+)*(?:https?:\/\/github\.com\/)?([^\s'"]+) from the text after
\* "git clone ": the options are skipped greedily, each only when whitespace and
\* a target follow it; the github prefix is skipped when a repository text
\* follows it.
RECURSIVE cloneTargetOf(_)
cloneTargetOf(s) ==
  LET run == NonSpaceRun(s)
      after == DropSpaces(From(s, Len(run) + 1))
      viaOption ==
        IF s # <<>> /\ s[1] \in OptionChunks /\ Len(run) < Len(s)
        THEN cloneTargetOf(after) ELSE NoCapture
  IN  IF viaOption.hit THEN viaOption
      ELSE IF s # <<>> /\ s[1] = "https://github.com/"
              /\ RunUntil(Tail(s), RepoStops) # <<>>
           THEN Capture(RunUntil(Tail(s), RepoStops))
      ELSE IF RunUntil(s, RepoStops) # <<>>
           THEN Capture(RunUntil(s, RepoStops))
      ELSE NoCapture

\* The text after  git \s+ word \s+  when line i is that "git"; <<>> otherwise.
CommandRest(line, i, word) ==
  LET a == DropSpaces(From(line, i + 1))
  IN  IF /\ line[i] = "git" /\ i < Len(line) /\ line[i + 1] = "sp"
         /\ a # <<>> /\ a[1] = word /\ Len(a) >= 2 /\ a[2] = "sp"
      THEN DropSpaces(Tail(a)) ELSE <<>>

\* line.match(/git\s+clone\s+(?:--[^\s]+\s+)*(?:https?:\/\/github\.com\/)?([^\s'"]+)/i)
cloneMatchOf(line) ==
  LET at == {i \in 1..Len(line) :
               cloneTargetOf(CommandRest(line, i, "clone")).hit}
  IN  IF at = {} THEN NoCapture
      ELSE cloneTargetOf(CommandRest(line, Min(at), "clone"))

\* \S+\s+(\S+) from the text after "git fetch "
fetchTargetOf(s) ==
  LET remote == NonSpaceRun(s)
      after == DropSpaces(From(s, Len(remote) + 1))
  IN  IF remote # <<>> /\ Len(remote) < Len(s) /\ after # <<>>
      THEN Capture(NonSpaceRun(after)) ELSE NoCapture

\* line.match(/git\s+fetch\s+\S+\s+(\S+)/i)
fetchBranchOf(line) ==
  LET at == {i \in 1..Len(line) :
               fetchTargetOf(CommandRest(line, i, "fetch")).hit}
  IN  IF at = {} THEN NoCapture
      ELSE fetchTargetOf(CommandRest(line, Min(at), "fetch"))

\* .replace(/^refs\/heads\//, '')
StripRefsHeads(c) ==
  IF c # <<>> /\ c[1] = "refs/heads/" THEN Tail(c) ELSE c

HasSlash(c) == \E i \in 1..Len(c) : c[i] \in SlashChunks
StartsWithDash(c) == c # <<>> /\ c[1] \in OptionChunks

\* ---------------------------------------------------- the loop's body
\* '—' , the placeholder of an unknown branch or commit
Dash == <<"-">>
Full == <<"full">>

\* repos.slice(0, 20)
RepoCap == 20

NoFields == [branch |-> <<>>, commit |-> <<>>, depth |-> <<>>]

\* The record with every field unknown, whatever was accumulated.
repoRecord_Unknown(repo, f) ==
  [repository |-> repo, branch |-> Dash, commit |-> Dash, depth |-> Full]

\* { repository: currentRepo, branch: currentBranch || '—',
\*   commit: currentCommit || '—', depth: currentDepth || 'full' }
repoRecord(repo, f) ==
  [repository |-> repo,
   branch |-> IF f.branch = <<>> THEN Dash ELSE f.branch,
   commit |-> IF f.commit = <<>> THEN Dash ELSE f.commit,
   depth |-> IF f.depth = <<>> THEN Full ELSE f.depth]

\* No record in progress is ever pushed.
shouldFlush_Never(repo, seen) == FALSE

\* if (currentRepo && !seen.has(currentRepo)), without its second half
shouldFlush_IgnoreSeen(repo, seen) == repo # <<>>

\* if (currentRepo && !seen.has(currentRepo))
shouldFlush(repo, seen) == repo # <<>> /\ repo \notin seen

\* The marker that leaves the fields as they are.
resetFields_Keep(f) == f

\* currentBranch = '' ; currentCommit = '' ; currentDepth = ''
resetFields(f) == NoFields

\* What one cleaned line does to currentBranch, currentCommit and currentDepth
\* after the sync and auth tests: refMatch, headMatch, depthMatch,
\* fetchDepthInput and fetchBranch, in the code's order. `inRepo` is the truth
\* of currentRepo.
fieldsAfter(f, line, inRepo) ==
  LET r == refMatchOf(line)
      h == headMatchOf(line)
      d == depthMatchOf(line)
      fd == fetchDepthInputOf(line)
      fb == fetchBranchOf(line)
      fetched == StripRefsHeads(fb.cap)
      branch1 == IF r.hit THEN branchOfRef(r) ELSE f.branch
      depth1 == IF d.hit THEN d.cap ELSE f.depth
      depth2 == IF fd.hit
                THEN (IF fd.cap = <<"0">> THEN Full ELSE fd.cap)
                ELSE depth1
      branch2 == IF fb.hit /\ inRepo /\ branch1 = <<>>
                    /\ ~StartsWithDash(fetched)
                 THEN fetched ELSE branch1
  IN  [branch |-> branch2,
       commit |-> IF h.hit THEN h.cap ELSE f.commit,
       depth |-> depth2]

\* One turn of  for (const raw of lines)  on the state st.
scanRepoLine(st, raw) ==
  LET line == cleanLine(raw)
      s == syncMatchOf(line)
      flushed == s.hit /\ shouldFlush(st.repo, st.seen)
      repos1 == IF flushed
                THEN Append(st.repos, repoRecord(st.repo, st.fields))
                ELSE st.repos
      seen1 == IF flushed THEN st.seen \cup {st.repo} ELSE st.seen
      repo1 == IF s.hit THEN s.cap ELSE st.repo
      fields1 == IF s.hit THEN resetFields(st.fields) ELSE st.fields
      a == authMatchOf(line)
      repo2 == IF a.hit /\ repo1 = <<>> THEN StripDotGit(a.cap) ELSE repo1
      c == cloneMatchOf(line)
      clonedRepo == StripDotGit(c.cap)
      emits == /\ c.hit /\ ~s.hit
               /\ HasSlash(clonedRepo) /\ clonedRepo \notin seen1
  IN  IF line = <<>> THEN st
      ELSE [repo |-> repo2,
            fields |-> fieldsAfter(fields1, line, repo2 # <<>>),
            repos |-> IF emits
                      THEN Append(repos1, repoRecord(clonedRepo, NoFields))
                      ELSE repos1,
            seen |-> IF emits THEN seen1 \cup {clonedRepo} ELSE seen1]

\* ============================================================ SpecRepos
RepoLines ==
  { <<"ts", "sp", "Syncing repository:", "sp", "acme/widgets">>,
    <<"Syncing repository:", "sp", "acme/tools">>,
    <<"Checking out", "sp", "ref:", "sp", "refs/heads/", "main">>,
    <<"HEAD is now at", "sp", "abc1234", "sp", "hello">>,
    <<"git", "sp", "fetch", "sp", "--depth", "=", "1", "sp", "origin">>,
    <<"fetch-depth:", "sp", "0">>,
    <<"git", "sp", "clone", "sp", "https://github.com/", "acme/widgets",
      ".git">>,
    <<"git", "sp", "fetch", "sp", "origin", "sp", "refs/heads/", "dev">>,
    <<"Setting up auth", "sp", "for", "sp", "https://github.com/",
      "acme/widgets", ".git">>,
    <<"sp">> }

RepoLogs == SeqsUpTo(RepoLines, MaxRepoLines) \ {<<>>}

InitRepos ==
  /\ crLines \in RepoLogs
  /\ crPos = 0
  /\ crRepo = <<>>
  /\ crBranch = <<>>
  /\ crCommit = <<>>
  /\ crDepth = <<>>
  /\ crRepos = <<>>
  /\ crSeen = {}
  /\ crResult = <<>>
  /\ crPc = "scan"
  /\ CrOthersIdle

\* for (const raw of lines) { ... } : one line
ScanRepoLine ==
  /\ crPc = "scan"
  /\ crPos < Len(crLines)
  /\ LET st == scanRepoLine(
                 [repo |-> crRepo,
                  fields |-> [branch |-> crBranch, commit |-> crCommit,
                              depth |-> crDepth],
                  repos |-> crRepos, seen |-> crSeen],
                 crLines[crPos + 1])
     IN  /\ crRepo' = st.repo
         /\ crBranch' = st.fields.branch
         /\ crCommit' = st.fields.commit
         /\ crDepth' = st.fields.depth
         /\ crRepos' = st.repos
         /\ crSeen' = st.seen
  /\ crPos' = crPos + 1
  /\ UNCHANGED <<crLines, crResult, crPc>>
  /\ CrFrame

\* The flush after the loop, and  return repos.slice(0, 20)
ReturnRepos ==
  /\ crPc = "scan"
  /\ crPos = Len(crLines)
  /\ LET flushed == shouldFlush(crRepo, crSeen)
         repos == IF flushed
                  THEN Append(crRepos,
                         repoRecord(crRepo,
                           [branch |-> crBranch, commit |-> crCommit,
                            depth |-> crDepth]))
                  ELSE crRepos
     IN  /\ crRepos' = repos
         /\ crSeen' = IF flushed THEN crSeen \cup {crRepo} ELSE crSeen
         /\ crResult' =
              SubSeq(repos, 1, IF Len(repos) < RepoCap THEN Len(repos)
                               ELSE RepoCap)
  /\ crPc' = "done"
  /\ UNCHANGED <<crLines, crPos, crRepo, crBranch, crCommit, crDepth>>
  /\ CrFrame

NextRepos ==
  \/ ScanRepoLine
  \/ ReturnRepos

SpecRepos == InitRepos /\ [][NextRepos]_vars

\* ------------------------------------------------------------------ C9
syncAt(k) == syncMatchOf(cleanLine(crLines[k]))

\* Line k is a standalone git clone line whose repository is x.
ClonesAt(k, x) ==
  LET c == cloneMatchOf(cleanLine(crLines[k]))
  IN  c.hit /\ ~syncAt(k).hit /\ StripDotGit(c.cap) = x

\* Line k is an auth-setup line whose repository is x.
AuthNamesAt(k, x) ==
  LET a == authMatchOf(cleanLine(crLines[k]))
  IN  a.hit /\ StripDotGit(a.cap) = x

\* The fields that lines i .. j-1 accumulate onto f for a repository in progress.
RECURSIVE FieldsOver(_, _, _)
FieldsOver(f, i, j) ==
  IF i >= j THEN f
  ELSE FieldsOver(fieldsAfter(f, cleanLine(crLines[i]), TRUE), i + 1, j)

\* <<i, j>> : line i is the first sync marker of its repository, line j is the
\* next sync marker and names the same repository, and lines lie between them.
MarkerPairs ==
  {p \in (1..Len(crLines)) \X (1..Len(crLines)) :
     /\ p[1] + 1 < p[2]
     /\ syncAt(p[1]).hit /\ syncAt(p[2]).hit
     /\ syncAt(p[1]).cap = syncAt(p[2]).cap
     /\ \A k \in 1..(p[1] - 1) :
          ~(syncAt(k).hit /\ syncAt(k).cap = syncAt(p[1]).cap)
     /\ \A k \in (p[1] + 1)..(p[2] - 1) : ~syncAt(k).hit}

RecordsOf(x) == {n \in 1..Len(crResult) : crResult[n].repository = x}

NoTwoRecordsOfOneRepository ==
  \A m, n \in 1..Len(crResult) :
    crResult[m].repository = crResult[n].repository => m = n

\* The one record of the pair's repository carries the fields accumulated from
\* the first marker up to the second.
CarriesAccumulatedFields(p) ==
  LET x == syncAt(p[1]).cap
  IN  /\ Cardinality(RecordsOf(x)) = 1
      /\ \A n \in RecordsOf(x) :
           crResult[n] = repoRecord(x, FieldsOver(NoFields, p[1], p[2]))

FirstEmittedBySecondMarker(p) ==
  LET x == syncAt(p[1]).cap
  IN  /\ \A k \in 1..(p[2] - 1) : ~ClonesAt(k, x)
      /\ \A k \in 1..(p[1] - 1) : ~AuthNamesAt(k, x)
      /\ p[2] <= RepoCap

StepWords == {"step:", "Step:"}
RunWords == {"Run", "run"}
FailedWords == {"failed", "FAILED"}

\* ##\[error\].*step[:\s]+(.+)  matched from position i of the line:
\* .* is greedy, so the last "step:" that text follows is taken, and the
\* capture runs to the end of the line.
AnnotationStepsAt(c, i) ==
  IF i + 1 <= Len(c) /\ c[i] = "mkL" /\ c[i + 1] = "mkR"
  THEN {j \in (i + 2)..Len(c) :
          c[j] \in StepWords /\ DropSpaces(From(c, j + 1)) # <<>>}
  ELSE {}

\* Run (.+) failed  matched from position i of the line: (.+) is greedy, so
\* the last " failed" is the one that ends the capture.
RunFailedAt(c, i) ==
  IF i + 1 <= Len(c) /\ c[i] \in RunWords /\ c[i + 1] = "sp"
  THEN {j \in (i + 3)..(Len(c) - 1) :
          c[j] = "sp" /\ c[j + 1] \in FailedWords}
  ELSE {}

\* clean.match(/##\[error\].*step[:\s]+(.+)|Run (.+) failed/i)
\* and  match[1] || match[2]
stepMatchOf(c) ==
  LET at == {i \in 1..Len(c) :
               AnnotationStepsAt(c, i) # {} \/ RunFailedAt(c, i) # {}}
      i == Min(at)
  IN  IF at = {} THEN NoCapture
      ELSE IF AnnotationStepsAt(c, i) # {}
           THEN Capture(DropSpaces(From(c, Max(AnnotationStepsAt(c, i)) + 1)))
      ELSE Capture(SubSeq(c, i + 2, Max(RunFailedAt(c, i)) - 1))

\* const clean = cleanLine(line)
cleanForStep(line) == cleanLine(line)

\* for (const line of lines) { ... if (match) return ... } return null
\* <<>> stands for null.
extractFailedStep(lines) ==
  LET hits == {n \in 1..Len(lines) : stepMatchOf(cleanForStep(lines[n])).hit}
  IN  IF hits = {} THEN <<>>
      ELSE stepMatchOf(cleanForStep(lines[Min(hits)])).cap

UnknownStep == <<"Unknown step">>

\* stepName || extractFailedStep(rawLines) || 'Unknown step'
failedStepOf(stepName, rawLines) ==
  IF stepName # <<>> THEN stepName
  ELSE IF extractFailedStep(rawLines) # <<>> THEN extractFailedStep(rawLines)
  ELSE UnknownStep

\* ============================================================= SpecStep
StepLines ==
  { <<"ts", "sp", "mk", "Process", "sp", "step:", "sp", "Build">>,
    <<"Run", "sp", "npm", "sp", "test", "sp", "failed">>,
    <<"mkL", "mk", "mkR", "sp", "step:", "sp", "Deploy">>,
    <<"hello">>,
    <<"ts", "sp", "mk">> }

StepLogs == UNION {[1..n -> StepLines] : n \in 1..MaxStepLines}

StepNames == {<<>>, <<"Compile">>}

InitStep ==
  /\ fsLines \in StepLogs
  /\ fsStepName \in StepNames
  /\ fsResult = <<>>
  /\ fsPc = "start"
  /\ FsOthersIdle

\* failedStep: stepName || extractFailedStep(rawLines) || 'Unknown step'
ResolveFailedStep ==
  /\ fsPc = "start"
  /\ fsResult' = failedStepOf(fsStepName, fsLines)
  /\ fsPc' = "done"
  /\ UNCHANGED <<fsLines, fsStepName>>
  /\ FsFrame

NextStep == ResolveFailedStep

SpecStep == InitStep /\ [][NextStep]_vars

\* ----------------------------------------------------------------- C11
\* The raw line carries the annotation  ##[error] ... step: <name> .
AnnotatedSteps(raw) ==
  {j \in 1..Len(raw) :
     /\ raw[j] \in StepWords
     /\ \E i \in 1..(j - 1) : raw[i] = "mk"
     /\ DropSpaces(From(raw, j + 1)) # <<>>}

\* The raw line carries the phrase  Run <command> failed .
RunFailedPhrases(raw) == UNION {RunFailedAt(raw, i) : i \in 1..Len(raw)}

CarriesStep(raw) == AnnotatedSteps(raw) # {} \/ RunFailedPhrases(raw) # {}

\* The name that such a line gives.
StepNamedBy(raw) ==
  IF AnnotatedSteps(raw) # {}
  THEN Trim(From(raw, Max(AnnotatedSteps(raw)) + 1))
  ELSE stepMatchOf(raw).cap

\* C11: the failedStep is the caller-supplied step name when one is given;
\* otherwise it is the name given by the first log line that carries an
\* explicit step-failure annotation (##[error] ... step: <name>) or a
\* "Run <command> failed" phrase; otherwise it is "Unknown step".
C11_FailedStepResolution ==
  fsPc = "done" =>
    LET carriers == {n \in 1..Len(fsLines) : CarriesStep(fsLines[n])}
    IN  fsResult =
          IF fsStepName # <<>> THEN fsStepName
          ELSE IF carriers # {} THEN StepNamedBy(fsLines[Min(carriers)])
          ELSE UnknownStep

\* ========================================================== SpecBuckets
\* categorizeErrorLines and categorizeWarningLines on their own: the lines are
\* normalised, non-empty lines as analyzeLogs classifies them.
BucketErrorLines ==
  { <<"npm", "sp", "ERR!", "sp", "code", "sp", "ENOENT">>,
    <<"fatal", "sp", "timeout">>,
    <<"fatal", "sp", "ENOENT">>,
    <<"build", "sp", "failed">> }

BucketWarningLines ==
  { <<"warning", "sp", "TIMEOUT">>,
    <<"warning", "sp", "ENOENT">>,
    <<"WARN", "sp", "deprecated">> }

BucketPool == {PNpm, PNet, PShadow, PBroken}

BucketCatalogs ==
  {c \in SeqsUpTo(BucketPool, MaxBucketCatalog) :
     \A i, j \in 1..Len(c) : i # j => c[i] # c[j]}

InitBuckets ==
  /\ cbKind \in {"error", "warning"}
  /\ cbLines \in SeqsUpTo(IF cbKind = "error" THEN BucketErrorLines
                          ELSE BucketWarningLines, MaxBucketLines)
  /\ cbPatterns \in BucketCatalogs
  /\ cbResult = <<>>
  /\ cbPc = "start"
  /\ CbOthersIdle

\* const errorLinesByCategory = categorizeErrorLines(errorLines, patterns)
CategorizeErrors ==
  /\ cbPc = "start"
  /\ cbKind = "error"
  /\ cbResult' = categorizeErrorLines(cbLines, cbPatterns)
  /\ cbPc' = "done"
  /\ UNCHANGED <<cbKind, cbLines, cbPatterns>>
  /\ CbFrame

\* const warningLinesByCategory = categorizeWarningLines(warningLines, patterns)
CategorizeWarnings ==
  /\ cbPc = "start"
  /\ cbKind = "warning"
  /\ cbResult' = categorizeWarningLines(cbLines, cbPatterns)
  /\ cbPc' = "done"
  /\ UNCHANGED <<cbKind, cbLines, cbPatterns>>
  /\ CbFrame

NextBuckets ==
  \/ CategorizeErrors
  \/ CategorizeWarnings

SpecBuckets == InitBuckets /\ [][NextBuckets]_vars

\* ----------------------------------------------------------------- C12
\* The category the claim gives a line: that of the first entry, in catalog
\* order, whose regex matches it; the reserved bucket when none matches.
ClaimedCategory(line) ==
  LET hits == {k \in 1..Len(cbPatterns) :
                 RegexCompiles(cbPatterns[k]) /\ RegexTest(cbPatterns[k], line)}
  IN  IF hits # {} THEN cbPatterns[Min(hits)].category
      ELSE IF cbKind = "error" THEN "Other" ELSE "General"

\* C12: the category buckets partition the classified lines: every line is in
\* exactly one bucket, the category of the first catalog entry in order whose
\* regex matches it, or "Other" ("General" for warnings) when none matches, and
\* each bucket keeps its lines in log order.
C12_BucketsPartitionLines ==
  cbPc = "done" =>
    /\ \A i \in 1..Len(cbLines) :
         \A c \in DOMAIN cbResult :
           (cbLines[i] \in Range(cbResult[c])) <=> (c = ClaimedCategory(cbLines[i]))
    /\ \A i \in 1..Len(cbLines) : ClaimedCategory(cbLines[i]) \in DOMAIN cbResult
    /\ \A c \in DOMAIN cbResult :
         cbResult[c] = SelectSeq(cbLines, LAMBDA l : ClaimedCategory(l) = c)

\* ================================================================ run()
\* src/src/index.ts: the jobs of the run are listed, the failed ones selected,
\* and either the success summary is posted or each selected job is analysed.
JobNames == {"build", "test"}

\* job.conclusion
Conclusions == {"success", "failure", "cancelled"}

JobLists ==
  SeqsUpTo([name : JobNames, conclusion : Conclusions], MaxJobs)

\* const failedJobs = jobsData.jobs.filter(job => {
\*   const isFailed = job.conclusion === 'failure'
\*   if (failedJobName) return isFailed && job.name === failedJobName
\*   return isFailed })
selectFailedJobs(jobs, failedJobName) ==
  SelectSeq(jobs, LAMBDA job :
    /\ job.conclusion = "failure"
    /\ (failedJobName # "" => job.name = failedJobName))

\* What analyzeLogs can return for a failed job, as far as the outputs go: the
\* fields of a matched entry, or the fallback.
JobAnalyses == {signatureFields(PNpm), signatureFields(PNet), fallbackFields}

outputsOf(analysis) ==
  [rootCause |-> analysis.rootCause,
   matchedPattern |-> analysis.matchedPattern,
   category |-> analysis.category]

InitRun ==
  /\ rnJobs \in JobLists
  /\ rnPatterns = <<>>
  /\ rnFailedJobName \in {""} \cup JobNames
  /\ rnFailedJobs = <<>>
  /\ rnNext = 0
  /\ rnOutputs = NoOutputs
  /\ rnPath = "none"
  /\ rnPc = "start"
  /\ RnOthersIdle

\* listJobsForWorkflowRun answers and the failed jobs are selected.
SelectFailedJobs ==
  /\ rnPc = "start"
  /\ rnFailedJobs' = selectFailedJobs(rnJobs, rnFailedJobName)
  /\ rnNext' = 1
  /\ rnPc' = "selected"
  /\ UNCHANGED <<rnPatterns, rnJobs, rnFailedJobName, rnOutputs, rnPath>>
  /\ RnFrame

\* listJobsForWorkflowRun throws: the outer catch calls core.setFailed.
ListJobsThrows ==
  /\ rnPc = "start"
  /\ rnPc' = "setFailed"
  /\ UNCHANGED <<rnPatterns, rnJobs, rnFailedJobName, rnFailedJobs, rnNext, rnOutputs,
                 rnPath>>
  /\ RnFrame

\* if (failedJobs.length === 0) { ... core.setOutput('category', 'Success')
\* ... return }
PostSuccessSummary ==
  /\ rnPc = "selected"
  /\ rnFailedJobs = <<>>
  /\ rnOutputs' = [rootCause |-> "", matchedPattern |-> "none",
                   category |-> "Success"]
  /\ rnPath' = "success"
  /\ rnPc' = "done"
  /\ UNCHANGED <<rnPatterns, rnJobs, rnFailedJobName, rnFailedJobs, rnNext>>
  /\ RnFrame

\* for (const job of failedJobs) { const analysis = await analyzeLogs(...)
\* ... core.setOutput('category', analysis.category) ... } : one job
AnalyzeFailedJob ==
  /\ rnPc = "selected"
  /\ rnNext <= Len(rnFailedJobs)
  /\ \E analysis \in JobAnalyses : rnOutputs' = outputsOf(analysis)
  /\ rnPath' = "failure"
  /\ rnNext' = rnNext + 1
  /\ UNCHANGED <<rnPatterns, rnJobs, rnFailedJobName, rnFailedJobs, rnPc>>
  /\ RnFrame

\* analyzeLogs throws for the job (an entry that does not compile): the outer
\* catch calls core.setFailed and the loop is left.
AnalysisThrows ==
  /\ rnPc = "selected"
  /\ rnNext <= Len(rnFailedJobs)
  /\ rnPc' = "setFailed"
  /\ UNCHANGED <<rnPatterns, rnJobs, rnFailedJobName, rnFailedJobs, rnNext, rnOutputs,
                 rnPath>>
  /\ RnFrame

\* The loop over failedJobs ends.
CompleteRun ==
  /\ rnPc = "selected"
  /\ rnFailedJobs # <<>>
  /\ rnNext > Len(rnFailedJobs)
  /\ rnPc' = "done"
  /\ UNCHANGED <<rnPatterns, rnJobs, rnFailedJobName, rnFailedJobs, rnNext, rnOutputs,
                 rnPath>>
  /\ RnFrame

NextRun ==
  \/ SelectFailedJobs
  \/ ListJobsThrows
  \/ PostSuccessSummary
  \/ AnalyzeFailedJob
  \/ AnalysisThrows
  \/ CompleteRun

SpecRun == InitRun /\ [][NextRun]_vars

\* ----------------------------------------------------------------- C15
SomeJobFailed == \E i \in 1..Len(rnJobs) : rnJobs[i].conclusion = "failure"
AllJobsPassed == \A i \in 1..Len(rnJobs) : rnJobs[i].conclusion = "success"

\* C15: the action reports category "Success" (matched-pattern "none", empty
\* root-cause, through the success-summary path) only when all jobs of the run
\* passed; whenever some job of the run concluded with failure, for every value
\* of the failed-job-name input, the success path is not taken.
C15_SuccessOnlyWhenAllPassed ==
  /\ rnOutputs.category = "Success" => AllJobsPassed
  /\ SomeJobFailed => rnPath # "success"

\* ============================================================= SpecJobs
\* Two jobs analysed against one catalog.  A call of analyzeLogs is taken in
\* two steps, so that the calls can interleave: the lines are classified into
\* the call's errorLines and warningLines (lines 417-433), then the catalog is
\* walked and the result built (lines 435-490).
SharedJobs == {"build", "test"}

SharedLogLines ==
  { <<"ts", "sp", "mk">>,
    <<"ts", "sp", "mk", "npm", "sp", "ERR!", "sp", "code", "sp", "ENOENT">>,
    <<"ts", "sp", "mk", "warning", "sp", "TIMEOUT">>,
    <<"fatal", "sp", "timeout">> }

SharedLogs == UNION {[1..n -> SharedLogLines] : n \in 1..MaxSharedLogLines}

SharedCatalogs ==
  {c \in SeqsUpTo(AnalysisPool, MaxSharedCatalog) :
     \A i, j \in 1..Len(c) : i # j => c[i] # c[j]}

NoLocals == [errorLines |-> <<>>, warningLines |-> <<>>]

\* const errorLines: string[] = [] ; const warningLines: string[] = [] : the
\* arrays are locals of the call, every call has its own -- here, none has.
localsOf_Shared(job) == "build"

\* const errorLines: string[] = [] ; const warningLines: string[] = [] : the
\* arrays are locals of the call, every call has its own.
localsOf(job) == job

InitJobs ==
  /\ mjLoaded \in SharedCatalogs
  /\ mjPatterns = mjLoaded
  /\ mjLogs \in [SharedJobs -> SharedLogs]
  /\ mjLocals = [j \in SharedJobs |-> NoLocals]
  /\ mjResult = [j \in SharedJobs |-> NoAnalysis]
  /\ mjInfo = <<>>
  /\ mjPc = [j \in SharedJobs |-> "start"]
  /\ MjOthersIdle

\* Lines 417-433 of the call for job j.
ClassifyLines(j) ==
  /\ mjPc[j] = "start"
  /\ mjLocals' =
       [mjLocals EXCEPT ![localsOf(j)] =
          [errorLines |-> errorLinesOf(cleanedLines(mjLogs[j])),
           warningLines |-> warningLinesOf(cleanedLines(mjLogs[j]))]]
  /\ mjInfo' = Append(mjInfo, <<"Scanned", j>>)
  /\ mjPc' = [mjPc EXCEPT ![j] = "classified"]
  /\ UNCHANGED <<mjLoaded, mjPatterns, mjLogs, mjResult>>
  /\ MjFrame

\* Lines 435-490 of the call for job j.
MatchAndReturn(j) ==
  /\ mjPc[j] = "classified"
  /\ mjResult' =
       [mjResult EXCEPT ![j] =
          finishAnalysis(mjLogs[j], mjPatterns,
                         mjLocals[localsOf(j)].errorLines,
                         mjLocals[localsOf(j)].warningLines)]
  /\ mjInfo' = Append(mjInfo, <<"Returned", j>>)
  /\ mjPc' = [mjPc EXCEPT ![j] = "done"]
  /\ UNCHANGED <<mjLoaded, mjPatterns, mjLogs, mjLocals>>
  /\ MjFrame

ClassifyAnyJob == \E j \in SharedJobs : ClassifyLines(j)
ReturnAnyJob == \E j \in SharedJobs : MatchAndReturn(j)

NextJobs ==
  \/ ClassifyAnyJob
  \/ ReturnAnyJob

SpecJobs == InitJobs /\ [][NextJobs]_vars

SchemeChunks == {"https://", "http://"}

\* [^\s\)\]\>"\'] : the chunks a URL does not run over
UrlStops == {"sp", ")"}

\* [.,;:!?]
PunctuationChunks == {".", ","}

\* The number of characters of a chunk.
ChunkLength(c) ==
  CASE c = "https://" -> 8
    [] c = "http://" -> 7
    [] c = "github.com" -> 10
    [] c = "api.github.com" -> 14
    [] c = "example.org" -> 11
    [] c = "a.b" -> 3
    [] c = "a.io" -> 4
    [] c = "/acme/widgets" -> 13
    [] c = "/releases/download/" -> 19
    [] c = "/suites/" -> 8
    [] c = "/artifacts" -> 10
    [] c = "/actions/artifacts" -> 18
    [] c = "/issues" -> 7
    [] c = "/repos" -> 6
    [] c = "/build" -> 6
    [] c = "v1.zip" -> 6
    [] c = "long" -> 490
    [] OTHER -> 1

\* url.length
RECURSIVE UrlLength(_)
UrlLength(u) == IF u = <<>> THEN 0 ELSE ChunkLength(Head(u)) + UrlLength(Tail(u))

\* logs.matchAll(/https?:\/\/[^\s\)\]\>"\']+/g) : from the leftmost scheme
\* that a character of a URL follows, up to the next stop; then on from there.
RECURSIVE matchAllUrls(_)
matchAllUrls(log) ==
  LET at == {i \in 1..(Len(log) - 1) :
               log[i] \in SchemeChunks /\ log[i + 1] \notin UrlStops}
      i == Min(at)
      m == <<log[i]>> \o RunUntil(From(log, i + 1), UrlStops)
  IN  IF at = {} THEN <<>>
      ELSE <<m>> \o matchAllUrls(From(log, i + Len(m)))

\* match[0].replace(/[.,;:!?]+$/, '')
RECURSIVE StripTrailingPunctuation(_)
StripTrailingPunctuation(u) ==
  IF u # <<>> /\ u[Len(u)] \in PunctuationChunks
  THEN StripTrailingPunctuation(SubSeq(u, 1, Len(u) - 1))
  ELSE u

\* /github\.com/i.test(url)
MentionsGithub(u) ==
  \E i \in 1..Len(u) : u[i] \in {"github.com", "api.github.com"}

\* GITHUB_ALLOW_PATTERNS.some(p => p.test(url)) :
\*   github\.com\/[^/]+\/[^/]+\/releases\/download\/
\*   github\.com\/[^/]+\/[^/]+\/suites\/.*\/artifacts
\*   github\.com\/[^/]+\/[^/]+\/actions\/artifacts
GithubAllowed(u) ==
  \E i \in 1..(Len(u) - 2) :
    /\ u[i] \in {"github.com", "api.github.com"}
    /\ u[i + 1] = "/acme/widgets"
    /\ \/ u[i + 2] = "/releases/download/"
       \/ u[i + 2] = "/actions/artifacts"
       \/ /\ u[i + 2] = "/suites/"
          /\ \E j \in (i + 3)..Len(u) : u[j] \in {"/artifacts", "/actions/artifacts"}

MinUrlLength == 10
MaxUrlLength == 500

\* isUsefulUrl without its github.com branch
isUsefulUrl_LengthOnly(u) ==
  ~(UrlLength(u) <= MinUrlLength \/ UrlLength(u) >= MaxUrlLength)

\* if (url.length <= 10 || url.length >= 500) return false
\* if (/github\.com/i.test(url)) return GITHUB_ALLOW_PATTERNS.some(...)
\* if (/api\.github\.com/i.test(url)) return false ; return true
isUsefulUrl(u) ==
  IF UrlLength(u) <= MinUrlLength \/ UrlLength(u) >= MaxUrlLength THEN FALSE
  ELSE IF MentionsGithub(u) THEN GithubAllowed(u)
  ELSE TRUE

\* classifyUrl: the first row of LABEL_MATCHERS that matches, else the host
\* name (extractDomain).  Of the rows, only GitHub Release
\* (github\.com\/.*\/releases\/download) and GitHub Artifact
\* (github\.com\/.*\/artifacts) match a URL of these chunks.
classifyUrl(u) ==
  LET hosts == {i \in 1..Len(u) : u[i] \in {"github.com", "api.github.com"}}
      after(set) == hosts # {} /\ \E j \in (Min(hosts) + 1)..Len(u) : u[j] \in set
  IN  IF after({"/releases/download/"}) THEN "GitHub Release"
      ELSE IF after({"/artifacts", "/actions/artifacts"}) THEN "GitHub Artifact"
      ELSE IF Len(u) >= 2 THEN u[2] ELSE "url"

\* return links.slice(0, 20)
LinkCap == 20

\* ============================================================ SpecLinks
\* The texts a log is made of; they are joined by whitespace.
LinkTexts ==
  { <<"https://", "github.com", "/acme/widgets", "/issues">>,
    <<"https://", "github.com", "/acme/widgets", "/releases/download/",
      "v1.zip", ".">>,
    <<"https://", "github.com", "/acme/widgets", "/releases/download/",
      "v1.zip">>,
    <<"http://", "a.b">>,
    <<"http://", "a.io", ",">>,
    <<"https://", "example.org", "/build", "long">>,
    <<"https://", "api.github.com", "/repos", "/acme/widgets">>,
    <<"see", "https://", "example.org", "/build", ")", "https://",
      "github.com", "/acme/widgets", "/suites/", "7", "/artifacts">> }

RECURSIVE JoinTexts(_)
JoinTexts(ts) ==
  IF ts = <<>> THEN <<>>
  ELSE IF Len(ts) = 1 THEN ts[1]
  ELSE ts[1] \o <<"sp">> \o JoinTexts(Tail(ts))

LinkLogs == {JoinTexts(ts) : ts \in SeqsUpTo(LinkTexts, MaxLinkTexts)}

InitLinks ==
  /\ lkLog \in LinkLogs
  /\ lkMatches = matchAllUrls(lkLog)
  /\ lkPos = 0
  /\ lkFound = {}
  /\ lkLinks = <<>>
  /\ lkResult = <<>>
  /\ lkPc = "scan"
  /\ LkOthersIdle

\* for (const match of logs.matchAll(urlRegex)) { ... } : one match
HandleMatch ==
  /\ lkPc = "scan"
  /\ lkPos < Len(lkMatches)
  /\ LET url == StripTrailingPunctuation(lkMatches[lkPos + 1])
     IN  IF url \in lkFound \/ ~isUsefulUrl(url)
         THEN UNCHANGED <<lkFound, lkLinks>>
         ELSE /\ lkFound' = lkFound \cup {url}
              /\ lkLinks' = Append(lkLinks,
                              [url |-> url, label |-> classifyUrl(url)])
  /\ lkPos' = lkPos + 1
  /\ UNCHANGED <<lkLog, lkMatches, lkResult, lkPc>>
  /\ LkFrame

\* return links.slice(0, 20)
ReturnLinks ==
  /\ lkPc = "scan"
  /\ lkPos = Len(lkMatches)
  /\ lkResult' = SubSeq(lkLinks, 1, IF Len(lkLinks) < LinkCap THEN Len(lkLinks)
                                    ELSE LinkCap)
  /\ lkPc' = "done"
  /\ UNCHANGED <<lkLog, lkMatches, lkPos, lkFound, lkLinks>>
  /\ LkFrame

NextLinks ==
  \/ HandleMatch
  \/ ReturnLinks

SpecLinks == InitLinks /\ [][NextLinks]_vars

\* ----------------------------------------------------------------- C18
\* The URL's host is the CI platform.
PointsAtGithub(u) == Len(u) >= 2 /\ u[2] \in {"github.com", "api.github.com"}

\* The URL is a release download or an artifact endpoint.
IsReleaseOrArtifact(u) ==
  \E i \in 1..Len(u) :
    u[i] \in {"/releases/download/", "/artifacts", "/actions/artifacts"}

\* C18: every link returned by extractLinksFromLogs has a URL longer than 10
\* and shorter than 500 characters, no returned URL points at github.com unless
\* it is a release-download or artifact endpoint, and the returned URLs are
\* pairwise distinct.
C18_LinksUsefulAndDistinct ==
  /\ \A i \in 1..Len(lkResult) :
       /\ UrlLength(lkResult[i].url) > 10
       /\ UrlLength(lkResult[i].url) < 500
       /\ PointsAtGithub(lkResult[i].url) => IsReleaseOrArtifact(lkResult[i].url)
  /\ \A i, j \in 1..Len(lkResult) :
       lkResult[i].url = lkResult[j].url => i = j

\* A log with a github issue link, a release link written twice (once with a
\* full stop behind it) and a link of 11 characters: the release link is
\* returned once, the short link is returned, the issue link is not.
C18_Witness ==
  /\ lkPc = "done"
  /\ Len(lkMatches) = 3
  /\ <<"https://", "github.com", "/acme/widgets", "/issues">> \in Range(lkMatches)
  /\ <<"http://", "a.io", ",">> \in Range(lkMatches)
  /\ lkResult =
       << [url |-> <<"https://", "github.com", "/acme/widgets",
                     "/releases/download/", "v1.zip">>,
           label |-> "GitHub Release"],
          [url |-> <<"http://", "a.io">>, label |-> "a.io"] >>

\* =============================================== extractGitRefsFromLogs
\* src/src/analyzer.ts.  The chunks of a line that names a reference: the
\* phrases "Download action repository", "docker pull", "Pulling from", "FROM",
\* "Cloning into", "Checking out", "checkout", "Submodule"; the quote "'", the
\* brackets "(" and ")", "@", ":", "ref:", "refs/heads/", "refs/tags/",
\* "https://github.com/", ".git"; names; and other words.

\* [a-z0-9_./-]+ and, without the slash, [a-z0-9_.-]+
ImageChunks == {"node", "library/node", "20", "latest"}
TagChunks == {"node", "20", "latest"}

\* The first place at or after i that holds no whitespace.
RECURSIVE AfterSpaces(_, _)
AfterSpaces(line, i) ==
  IF i <= Len(line) /\ line[i] = "sp" THEN AfterSpaces(line, i + 1) ELSE i

\* '([^']+)' at place i: what stands between the quotes.
QuotedAt(line, i) ==
  LET run == RunUntil(From(line, i + 1), {"'"})
  IN  IF /\ i <= Len(line)
         /\ line[i] = "'"
         /\ run # <<>>
         /\ i + Len(run) + 1 <= Len(line)
      THEN Capture(run) ELSE NoCapture

GitRef(repo, ref, type) == [repo |-> repo, ref |-> ref, type |-> type]
Candidate(uid, r) == <<[uid |-> uid, ref |-> r]>>

\* line.match(/Download action repository '([^']+@[^']+)'/), then
\* const [repo, ref] = usesDownload[1].split('@')
usesDownloadOf(line) ==
  LET at == {i \in 1..Len(line) :
               /\ line[i] = "Download action repository"
               /\ i + 1 <= Len(line) /\ line[i + 1] = "sp"
               /\ QuotedAt(line, i + 2).hit
               /\ \E k \in 2..(Len(QuotedAt(line, i + 2).cap) - 1) :
                    QuotedAt(line, i + 2).cap[k] = "@"}
      cap == QuotedAt(line, Min(at) + 2).cap
      repo == RunUntil(cap, {"@"})
      ref == RunUntil(From(cap, Len(repo) + 2), {"@"})
  IN  IF at = {} THEN <<>>
      ELSE Candidate(<<"action:">> \o repo \o <<"@">> \o ref,
                     GitRef(repo, ref, "action"))

\* ([a-z0-9_./-]+(?::[a-z0-9_.-]+)?) at place i, then
\* const [repo, ref] = full.includes(':') ? full.split(':') : [full, 'latest']
imageAt(line, i) ==
  LET name == RunUntil(From(line, i), Range(line) \ ImageChunks)
      j == i + Len(name)
      tag == IF j <= Len(line) /\ line[j] = ":"
             THEN RunUntil(From(line, j + 1), Range(line) \ TagChunks)
             ELSE <<>>
      ref == IF tag = <<>> THEN <<"latest">> ELSE tag
  IN  IF name = <<>> THEN <<>>
      ELSE Candidate(<<"docker:">> \o name \o <<":">> \o ref,
                     GitRef(name, ref, "docker"))

\* line.match(/(?:docker\s+pull|Pulling\s+from)\s+(...)/i)
dockerPullOf(line) ==
  LET at == {i \in 1..(Len(line) - 1) :
               /\ line[i] \in {"docker pull", "Pulling from"}
               /\ line[i + 1] = "sp"
               /\ imageAt(line, AfterSpaces(line, i + 1)) # <<>>}
  IN  IF at = {} THEN <<>>
      ELSE imageAt(line, AfterSpaces(line, Min(at) + 1))

\* line.match(/^FROM\s+(...)/i)
dockerFromOf(line) ==
  IF Len(line) >= 2 /\ line[1] = "FROM" /\ line[2] = "sp"
  THEN imageAt(line, AfterSpaces(line, 2))
  ELSE <<>>

\* line.match(/Cloning into '([^']+)'/i)
gitCloneOf(line) ==
  LET at == {i \in 1..(Len(line) - 1) :
               /\ line[i] = "Cloning into"
               /\ line[i + 1] = "sp"
               /\ QuotedAt(line, i + 2).hit}
      repo == QuotedAt(line, Min(at) + 2).cap
  IN  IF at = {} THEN <<>>
      ELSE Candidate(<<"git:">> \o repo, GitRef(repo, <<"HEAD">>, "git-checkout"))

\* Where refs\/(heads|tags)\/ stands after (?:Checking out|checkout)\s+
\* (?:ref:\s+)? at place i; 0 when the line does not go on that way.
refsPlace(line, i) ==
  LET j == AfterSpaces(line, i + 1)
      k == IF j < Len(line) /\ line[j] = "ref:" /\ line[j + 1] = "sp"
           THEN AfterSpaces(line, j + 1) ELSE j
  IN  IF /\ i + 1 <= Len(line) /\ line[i + 1] = "sp"
         /\ k < Len(line)
         /\ line[k] \in {"refs/heads/", "refs/tags/"}
         /\ line[k + 1] # "sp"
      THEN k ELSE 0

\* line.match(/(?:Checking out|checkout)\s+(?:ref:\s+)?refs\/(heads|tags)\/(\S+)/i)
refCheckoutOf(line) ==
  LET at == {i \in 1..Len(line) :
               line[i] \in {"Checking out", "checkout"} /\ refsPlace(line, i) # 0}
      k == refsPlace(line, Min(at))
      refType == IF line[k] = "refs/heads/" THEN "heads" ELSE "tags"
      refName == RunUntil(From(line, k + 1), {"sp"})
      ref == <<refType, "/">> \o refName
  IN  IF at = {} THEN <<>>
      ELSE Candidate(<<"ref:">> \o ref, GitRef(<<>>, ref, "git-checkout"))

\* .replace(/^https?:\/\/github\.com\//, '')
StripGithubPrefix(c) ==
  IF c # <<>> /\ c[1] = "https://github.com/" THEN Tail(c) ELSE c

\* What \(([^)]+)\) captures at place i.
bracketedAt(line, i) ==
  LET run == RunUntil(From(line, i + 1), {")"})
  IN  IF /\ i <= Len(line)
         /\ line[i] = "("
         /\ run # <<>>
         /\ i + Len(run) + 1 <= Len(line)
      THEN Capture(run) ELSE NoCapture

\* line.match(/[Ss]ubmodule\s+'([^']+)'\s+\(([^)]+)\)/)
submoduleOf(line) ==
  LET url(i) == LET path == QuotedAt(line, AfterSpaces(line, i + 1))
                    j == AfterSpaces(line, i + 1) + Len(path.cap) + 2
                IN  IF /\ i + 1 <= Len(line) /\ line[i + 1] = "sp"
                       /\ path.hit
                       /\ j <= Len(line) /\ line[j] = "sp"
                    THEN bracketedAt(line, AfterSpaces(line, j))
                    ELSE NoCapture
      at == {i \in 1..Len(line) : line[i] = "Submodule" /\ url(i).hit}
      i0 == Min(at)
      repo == StripGithubPrefix(StripDotGit(url(i0).cap))
  IN  IF at = {} THEN <<>>
      ELSE Candidate(<<"submodule:">> \o repo,
                     GitRef(repo, QuotedAt(line, AfterSpaces(line, i0 + 1)).cap,
                            "submodule"))

\* What one line offers, in the order the loop body looks for it.
refCandidates(line) ==
  usesDownloadOf(line) \o dockerPullOf(line) \o dockerFromOf(line)
    \o gitCloneOf(line) \o refCheckoutOf(line) \o submoduleOf(line)

\* The push without the look into seen.
pushRef_NoSeen(st, c) ==
  [seen |-> st.seen \cup {c.uid}, refs |-> Append(st.refs, c.ref)]

\* if (!seen.has(uid)) { seen.add(uid); refs.push(...) }
pushRef(st, c) ==
  IF c.uid \in st.seen THEN st
  ELSE [seen |-> st.seen \cup {c.uid}, refs |-> Append(st.refs, c.ref)]

RECURSIVE pushRefs(_, _)
pushRefs(st, cs) ==
  IF cs = <<>> THEN st ELSE pushRefs(pushRef(st, Head(cs)), Tail(cs))

\* return refs.slice(0, 40)
GitRefCap == 40

\* ============================================================= SpecRefs
RefLines ==
  { <<"ts", "sp", "Download action repository", "sp", "'", "actions/checkout",
      "@", "v4", "'">>,
    <<"docker pull", "sp", "node", ":", "20">>,
    <<"docker pull", "sp", "node", ":", "latest">>,
    <<"Pulling from", "sp", "library/node">>,
    <<"FROM", "sp", "node", ":", "20", "sp", "AS", "sp", "builder">>,
    <<"FROM", "sp", "node">>,
    <<"Cloning into", "sp", "'", "widgets", "'", "...">>,
    <<"Checking out", "sp", "ref:", "sp", "refs/heads/", "main">>,
    <<"git", "sp", "checkout", "sp", "refs/heads/", "main", "sp", "&&", "sp",
      "docker pull", "sp", "node", ":", "20">>,
    <<"Submodule", "sp", "'", "lib/foo", "'", "sp", "(", "https://github.com/",
      "acme/foo", ".git", ")", "sp", "registered">>,
    <<"Submodule", "sp", "'", "vendor/foo", "'", "sp", "(",
      "https://github.com/", "acme/foo", ")">>,
    <<"npm", "sp", "ERR!">> }

RefLogs == SeqsUpTo(RefLines, MaxRefLines)

\* A log with more references than the cap: line i downloads action number i,
\* but line d downloads the first action again.
LongRefLine(i, d) ==
  <<"Download action repository", "sp", "'", "actions/tool",
    ToString(IF i = d THEN 1 ELSE i), "@", "v1", "'">>

LongRefLogs ==
  {[i \in 1..n |-> LongRefLine(i, d)] :
     n \in (GitRefCap - 1)..MaxLongRefLines, d \in {0, 2, GitRefCap + 1}}

InitRefs ==
  /\ grLines \in RefLogs \cup LongRefLogs
  /\ grPos = 1
  /\ grRefs = <<>>
  /\ grSeen = {}
  /\ grResult = <<>>
  /\ grPc = "scan"
  /\ GrOthersIdle

\* One turn of for (const raw of lines).
ScanRefLine ==
  /\ grPc = "scan"
  /\ grPos <= Len(grLines)
  /\ LET line == cleanLine(grLines[grPos])
         st == pushRefs([seen |-> grSeen, refs |-> grRefs], refCandidates(line))
     IN  /\ grSeen' = st.seen
         /\ grRefs' = st.refs
  /\ grPos' = grPos + 1
  /\ UNCHANGED <<grLines, grResult, grPc>>
  /\ GrFrame

\* return refs.slice(0, 40)
ReturnRefs ==
  /\ grPc = "scan"
  /\ grPos > Len(grLines)
  /\ grResult' = SubSeq(grRefs, 1,
                        IF Len(grRefs) < GitRefCap THEN Len(grRefs) ELSE GitRefCap)
  /\ grPc' = "done"
  /\ UNCHANGED <<grLines, grPos, grRefs, grSeen>>
  /\ GrFrame

NextRefs == ScanRefLine \/ ReturnRefs

SpecRefs == InitRefs /\ [][NextRefs]_vars

\* ----------------------------------------------------------------- C19
\* The references each line of the log names.
RefsNamedIn(lines) ==
  [k \in 1..Len(lines) |->
     {c.ref : c \in Range(refCandidates(cleanLine(lines[k])))}]

\* C19: extractGitRefsFromLogs returns at most 40 references, in the order of
\* the lines where each first appears, and no two of them have the same type,
\* repo and ref.
C19_RefsCappedOrderedDistinct ==
  grPc = "done" =>
    LET named == RefsNamedIn(grLines)
        first == [i \in 1..Len(grResult) |->
                    Min({k \in 1..Len(grLines) : grResult[i] \in named[k]}
                          \cup {Len(grLines) + 1})]
    IN  /\ Len(grResult) <= 40
        /\ \A i \in 1..Len(grResult) : first[i] <= Len(grLines)
        /\ \A i, j \in 1..Len(grResult) :
             /\ i < j => first[i] <= first[j]
             /\ (/\ grResult[i].type = grResult[j].type
                 /\ grResult[i].repo = grResult[j].repo
                 /\ grResult[i].ref = grResult[j].ref) => i = j

\* A log of 42 lines that names 41 different actions, one of them twice:
\* 40 references come back.
C19_Witness ==
  /\ grPc = "done"
  /\ Len(grLines) = 42
  /\ grLines[2] = grLines[1]
  /\ Len(grRefs) = 41
  /\ Len(grResult) = 40
  /\ grResult[1] = GitRef(<<"actions/tool", "1">>, <<"v1">>, "action")

\* ----------------------------------------------------------------- C20
\* Raw line k has the form <indent>with: <key>: <value> (n = 8) or
\* <indent>env: <KEY>: <value> (n = 9), its pair is not credential-like, and
\* none of the matchers listed before matcher n matches its normalised text.
StepBlockCase(k, n) ==
  /\ Matcher(n, bpLines[k]).hit
  /\ ~looksLikeSecret(Matcher(n, bpLines[k]).key, Matcher(n, bpLines[k]).value)
  /\ \A e \in 1..(n - 1) : ~Matcher(e, cleanLine(bpLines[k])).hit

\* An earlier line of the log gave a pair with the same text key=value.
EarlierSameText(k, m) ==
  \E j \in 1..(k - 1) : GivesPair(j) /\ PairText(PairAt(j)) = PairText(m)

\* C20: a step-logged line of the form <indent>with: <key>: <value> yields a
\* BuildParam with source input, and a line of the form <indent>env: <KEY>:
\* <value> yields a BuildParam with source env, provided the pair is not
\* credential-like and no earlier matcher matches the line.
C20_StepBlockLinesYieldParams ==
  (bpPc = "done" /\ Len(bpLines) <= MaxParamLines) =>
    \A k \in 1..Len(bpLines), n \in {8, 9} :
      StepBlockCase(k, n) =>
        LET m == Matcher(n, bpLines[k])
        IN  \E i \in 1..Len(bpResult) :
              /\ bpResult[i].key = m.key
              /\ bpResult[i].value = m.value
              /\ bpResult[i].source = MatcherSource(n) \/ EarlierSameText(k, m)

\* ============================================================ SpecDepth
\* extractClonedRepos over logs of depth lines.
DepthLines ==
  { <<"Syncing repository:", "sp", "acme/widgets">>,
    <<"git", "sp", "fetch", "sp", "--depth", "sp", "0", "sp", "origin">>,
    <<"git", "sp", "fetch", "sp", "--depth", "=", "0", "sp", "origin">>,
    <<"git", "sp", "fetch", "sp", "--depth", "=", "1", "sp", "origin">>,
    <<"fetch-depth:", "sp", "0">>,
    <<"fetch-depth:", "sp", "1">> }

DepthLogs == SeqsUpTo(DepthLines, MaxDepthLines) \ {<<>>}

InitDepth ==
  /\ crLines \in DepthLogs
  /\ crPos = 0
  /\ crRepo = <<>>
  /\ crBranch = <<>>
  /\ crCommit = <<>>
  /\ crDepth = <<>>
  /\ crRepos = <<>>
  /\ crSeen = {}
  /\ crResult = <<>>
  /\ crPc = "scan"
  /\ CrOthersIdle

SpecDepth == InitDepth /\ [][NextRepos]_vars

\* ----------------------------------------------------------------- C21
\* The depth that line k states, in either explicit form; <<>> when it states
\* none.  A line that holds both forms states that of fetch-depth, which the
\* loop body reads last.
DepthStatedAt(k) ==
  LET line == cleanLine(crLines[k])
  IN  IF fetchDepthInputOf(line).hit THEN fetchDepthInputOf(line).cap
      ELSE IF depthMatchOf(line).hit THEN depthMatchOf(line).cap
      ELSE <<>>

\* The log is one sync marker followed by lines that are not sync markers.
OneRecordLog ==
  /\ crLines # <<>>
  /\ syncAt(1).hit
  /\ \A k \in 2..Len(crLines) : ~syncAt(k).hit

\* C21: a depth of 0 is reported as the literal "full" for both explicit
\* forms: a record whose last depth line is --depth 0 (or --depth=0) has depth
\* "full", exactly as one whose last depth line is fetch-depth: 0.
C21_DepthZeroIsFull ==
  (crPc = "done" /\ OneRecordLog) =>
    LET stated == {k \in 1..Len(crLines) : DepthStatedAt(k) # <<>>}
    IN  (stated # {} /\ DepthStatedAt(Max(stated)) = <<"0">>) =>
          /\ Len(crResult) = 1
          /\ crResult[1].depth = Full

\* ----------------------------------------------------------------- C22
\* The record that the values in progress at the end of the log make.
RecordInProgress ==
  [repository |-> crRepo,
   branch |-> IF crBranch = <<>> THEN Dash ELSE crBranch,
   commit |-> IF crCommit = <<>> THEN Dash ELSE crCommit,
   depth |-> IF crDepth = <<>> THEN Full ELSE crDepth]

\* A line of the log emits a record of repository x before the end of input:
\* a git clone line names it, or a sync marker follows a sync marker or an
\* auth-setup line that names it.
EmittedBeforeEnd(x) ==
  \/ \E k \in 1..Len(crLines) : ClonesAt(k, x)
  \/ \E i, j \in 1..Len(crLines) :
       /\ i < j
       /\ syncAt(j).hit
       /\ (syncAt(i).hit /\ syncAt(i).cap = x) \/ AuthNamesAt(i, x)

\* C22 as stated: at end of input, a record still in progress is flushed: its
\* accumulated repository, branch, commit and depth are emitted as a record of
\* the result.
C22_EndFlushesRecord ==
  (crPc = "done" /\ crRepo # <<>>) => RecordInProgress \in Range(crResult)

\* C22, amended: at end of input, a record still in progress whose repository
\* no earlier line has emitted is flushed: its accumulated repository, branch,
\* commit and depth are the last record of the result, when at most 20 records
\* were emitted.
C22_EndFlushesRecordUnlessEmitted ==
  (/\ crPc = "done"
   /\ crRepo # <<>>
   /\ ~EmittedBeforeEnd(crRepo)
   /\ Len(crRepos) <= RepoCap) =>
    /\ crResult # <<>>
    /\ crResult[Len(crResult)] = RecordInProgress

\* The log ends while acme/tools is in progress with a branch and a commit,
\* after the record of acme/widgets was flushed by the second marker.
C22_Witness ==
  /\ crPc = "done"
  /\ crLines =
       << <<"ts", "sp", "Syncing repository:", "sp", "acme/widgets">>,
          <<"Syncing repository:", "sp", "acme/tools">>,
          <<"Checking out", "sp", "ref:", "sp", "refs/heads/", "main">>,
          <<"HEAD is now at", "sp", "abc1234", "sp", "hello">> >>
  /\ ~EmittedBeforeEnd(crRepo)
  /\ Len(crResult) = 2
  /\ crResult[2] = [repository |-> <<"acme/tools">>, branch |-> <<"main">>,
                    commit |-> <<"abc1234">>, depth |-> Full]

\* ----------------------------------------------------------------- C23
\* The sync markers among the lines handled so far.
MarkersSoFar == {k \in 1..crPos : syncAt(k).hit}

\* C23: a sync marker for repository X flushes the record in progress and
\* starts a fresh one: the repository in progress is X, its branch, commit and
\* depth are those that the lines from the marker on set, never those set by
\* lines before the marker, and the repository of every earlier marker has its
\* record among the emitted ones.
C23_MarkerStartsFresh ==
  (crPc = "scan" /\ MarkersSoFar # {}) =>
    LET m == Max(MarkersSoFar)
        f == FieldsOver(NoFields, m, crPos + 1)
    IN  /\ crRepo = syncAt(m).cap
        /\ crBranch = f.branch
        /\ crCommit = f.commit
        /\ crDepth = f.depth
        /\ \A k \in MarkersSoFar :
             k < m => /\ syncAt(k).cap \in crSeen
                      /\ \E n \in 1..Len(crRepos) :
                           crRepos[n].repository = syncAt(k).cap

\* acme/widgets has a branch and a commit when the marker of acme/tools comes:
\* its record is emitted with them and acme/tools starts with none.
C23_Witness ==
  /\ crPc = "scan"
  /\ crPos = 4
  /\ crLines =
       << <<"ts", "sp", "Syncing repository:", "sp", "acme/widgets">>,
          <<"Checking out", "sp", "ref:", "sp", "refs/heads/", "main">>,
          <<"HEAD is now at", "sp", "abc1234", "sp", "hello">>,
          <<"Syncing repository:", "sp", "acme/tools">> >>
  /\ crRepo = <<"acme/tools">>
  /\ crBranch = <<>> /\ crCommit = <<>> /\ crDepth = <<>>
  /\ crRepos = << [repository |-> <<"acme/widgets">>, branch |-> <<"main">>,
                   commit |-> <<"abc1234">>, depth |-> Full] >>

\* ============================================================ SpecClone
\* extractClonedRepos over logs with git clone lines.
CloneLines ==
  { <<"Syncing repository:", "sp", "acme/widgets">>,
    <<"Checking out", "sp", "ref:", "sp", "refs/heads/", "main">>,
    <<"HEAD is now at", "sp", "abc1234", "sp", "hello">>,
    <<"git", "sp", "clone", "sp", "https://github.com/", "acme/widgets",
      ".git">>,
    <<"git", "sp", "clone", "sp", "https://github.com/", "acme/tools">>,
    <<"git", "sp", "clone", "sp", "--depth", "=", "1", "sp",
      "https://github.com/", "acme/tools">> }

CloneLogs == SeqsUpTo(CloneLines, MaxCloneLines) \ {<<>>}

InitClone ==
  /\ crLines \in CloneLogs
  /\ crPos = 0
  /\ crRepo = <<>>
  /\ crBranch = <<>>
  /\ crCommit = <<>>
  /\ crDepth = <<>>
  /\ crRepos = <<>>
  /\ crSeen = {}
  /\ crResult = <<>>
  /\ crPc = "scan"
  /\ CrOthersIdle

SpecClone == InitClone /\ [][NextRepos]_vars

\* ----------------------------------------------------------------- C24
\* Line k is a standalone git clone line.
CloneLineAt(k) == cloneMatchOf(cleanLine(crLines[k])).hit /\ ~syncAt(k).hit

\* The repository that the git clone line k names.
ClonedAt(k) == StripDotGit(cloneMatchOf(cleanLine(crLines[k])).cap)

\* No line before line k names repository y.
FirstNamedAt(k, y) ==
  \A j \in 1..(k - 1) :
    /\ ~(syncAt(j).hit /\ syncAt(j).cap = y)
    /\ ~AuthNamesAt(j, y)
    /\ ~(CloneLineAt(j) /\ ClonedAt(j) = y)

\* The last sync marker of the log; 0 when it has none.
LastMarker ==
  LET ms == {k \in 1..Len(crLines) : syncAt(k).hit}
  IN  IF ms = {} THEN 0 ELSE Max(ms)

\* C24: a standalone git clone line is independent of the record in progress:
\* processing it leaves the in-progress repository, branch, commit and depth
\* unchanged, the record it emits has branch -, commit - and depth full, and
\* the in-progress record is still emitted afterwards with its own fields.
C24_CloneLineIndependent ==
  /\ (crPc = "scan" /\ crPos >= 1 /\ CloneLineAt(crPos) /\ MarkersSoFar # {}) =>
       LET m == Max(MarkersSoFar)
           f == FieldsOver(NoFields, m, crPos)
       IN  /\ crRepo = syncAt(m).cap
           /\ crBranch = f.branch /\ crCommit = f.commit /\ crDepth = f.depth
           /\ FirstNamedAt(crPos, ClonedAt(crPos)) =>
                /\ crRepos # <<>>
                /\ crRepos[Len(crRepos)] =
                     [repository |-> ClonedAt(crPos), branch |-> Dash,
                      commit |-> Dash, depth |-> Full]
  /\ (/\ crPc = "done"
      /\ LastMarker # 0
      /\ FirstNamedAt(LastMarker, crRepo)
      /\ \E k \in (LastMarker + 1)..Len(crLines) : CloneLineAt(k)) =>
       RecordInProgress \in Range(crResult)

\* ======================================================= SpecFirstMatch
\* extractBuildParams over lines that more than one matcher matches.
FirstMatchLines ==
  { <<"docker", "sp", "--build-arg", "sp", "auth_mode", "=", "prod", "sp",
      "-D", "version", "=", "pre">>,
    <<"mvn", "sp", "-D", "version", "=", "pre">>,
    <<"docker", "sp", "--build-arg", "sp", "version", "=", "pre", "sp",
      "-D", "version", "=", "prod">>,
    <<"NODE_ENV", "=", "prod">>,
    <<"hello">> }

FirstMatchLogs == SeqsUpTo(FirstMatchLines, MaxFirstMatchLines)

InitFirstMatch ==
  /\ bpLines \in FirstMatchLogs
  /\ bpPos = 1
  /\ bpParams = <<>>
  /\ bpSeen = {}
  /\ bpResult = <<>>
  /\ bpPc = "scan"
  /\ BpOthersIdle

SpecFirstMatch == InitFirstMatch /\ [][NextParams]_vars

\* ----------------------------------------------------------------- C25
\* Parameter p is what the first matcher, in the listed order, that matches
\* line i makes of it.
MadeByFirstMatcherOf(p, i) ==
  LET line == cleanLine(bpLines[i])
  IN  \E n \in 1..NumMatchers :
        /\ Matcher(n, line).hit
        /\ \A e \in 1..(n - 1) : ~Matcher(e, line).hit
        /\ p = [key |-> Matcher(n, line).key, value |-> Matcher(n, line).value,
                source |-> MatcherSource(n)]

\* C25: each log line contributes at most one parameter, produced by the first
\* matcher in the listed order that matches the line; a later matcher's pair
\* is never taken, also when the first matcher's pair is dropped as a duplicate
\* or as credential-like.  Stated over the lines scanned so far: there is a
\* way to give every parameter a line of its own, in order, whose first
\* matcher made it.
C25_FirstMatcherOnly ==
  \E at \in [1..Len(bpParams) -> 1..(bpPos - 1)] :
    /\ \A i \in 1..Len(bpParams) : MadeByFirstMatcherOf(bpParams[i], at[i])
    /\ \A i, j \in 1..Len(bpParams) : i < j => at[i] < at[j]

\* The first line's first matcher gives a credential-like pair, the third
\* line's first matcher repeats the pair of the second: only the second line
\* contributes, and the pairs a later matcher would give are not returned.
C25_Witness ==
  /\ bpPc = "done"
  /\ bpLines =
       << <<"docker", "sp", "--build-arg", "sp", "auth_mode", "=", "prod", "sp",
            "-D", "version", "=", "pre">>,
          <<"mvn", "sp", "-D", "version", "=", "pre">>,
          <<"docker", "sp", "--build-arg", "sp", "version", "=", "pre", "sp",
            "-D", "version", "=", "prod">> >>
  /\ bpResult = << [key |-> <<"version">>, value |-> <<"pre">>,
                    source |-> "cli-flag"] >>

\* ========================================================== SpecContext
\* analyzeLogs over logs long enough to hold lines beyond the two neighbours
\* of the matched line.
ContextLines ==
  { <<>>,
    <<"ts", "sp", "mk">>,
    <<"ts", "sp", "mk", "npm", "sp", "ERR!", "sp", "code", "sp", "ENOENT">>,
    <<"ts", "sp", "enoent">>,
    <<"fatal", "sp", "timeout">> }

ContextLogs == UNION {[1..n -> ContextLines] : n \in 1..MaxContextLines}

InitContext ==
  /\ anLogs \in ContextLogs
  /\ anPatterns \in {<<PNpm>>, <<PNet>>}
  /\ anResult = NoAnalysis
  /\ anPc = "start"
  /\ AnOthersIdle

SpecContext == InitContext /\ [][Next]_vars

\* ----------------------------------------------------------------- C26
\* The normalised text at raw position k, when the log has that position and
\* the text is not empty.
NeighbourAt(k) ==
  IF k >= 1 /\ k <= Len(anLogs) /\ cleanLine(anLogs[k]) # <<>>
  THEN <<cleanLine(anLogs[k])>> ELSE <<>>

\* C26: when a pattern matches line i, contextBefore holds the non-empty
\* normalised lines of raw positions i-2 and i-1, in log order, and
\* contextAfter those of positions i+1 and i+2: at most 2 lines each, an empty
\* neighbour is dropped and not replaced by a line further away, and at the
\* start (end) of the log fewer lines are returned.
C26_ContextFromTwoNeighbours ==
  (Returned /\ anResult.matchedPattern # "none") =>
    LET i == anResult.exactMatchLineNumber
    IN  /\ anResult.contextBefore = NeighbourAt(i - 2) \o NeighbourAt(i - 1)
        /\ anResult.contextAfter = NeighbourAt(i + 1) \o NeighbourAt(i + 2)

\* The matched line is the fourth of five, the line before it normalises to
\* nothing and the last line is empty: contextBefore holds the second line
\* only, not the first, three positions away, and contextAfter is empty.
C26_Witness ==
  /\ Returned
  /\ anLogs = << <<"fatal", "sp", "timeout">>,
                 <<"ts", "sp", "enoent">>,
                 <<"ts", "sp", "mk">>,
                 <<"ts", "sp", "mk", "npm", "sp", "ERR!", "sp", "code", "sp",
                   "ENOENT">>,
                 <<>> >>
  /\ anResult.matchedPattern = "npm-missing"
  /\ anResult.exactMatchLineNumber = 4
  /\ anResult.contextBefore = << <<"enoent">> >>
  /\ anResult.contextAfter = <<>>

\* ----------------------------------------------------------------- C27
\* The repositories that the lines of the log name: by a sync marker, by an
\* auth-setup line or by a git clone line.
RepositoriesNamed ==
  {syncAt(k).cap : k \in {q \in 1..Len(crLines) : syncAt(q).hit}}
    \cup {StripDotGit(authMatchOf(cleanLine(crLines[k])).cap) :
            k \in {q \in 1..Len(crLines) : authMatchOf(cleanLine(crLines[q])).hit}}
    \cup {ClonedAt(k) : k \in {q \in 1..Len(crLines) : CloneLineAt(q)}}

\* C27: for a log with at most 20 distinct repositories, every repository
\* named by a sync marker appears in exactly one record of the result,
\* whatever lines (other sync markers, git clone lines, end of input) follow
\* the marker.
C27_SyncedRepositoryReportedOnce ==
  (crPc = "done" /\ Cardinality(RepositoriesNamed) <= 20) =>
    \A k \in 1..Len(crLines) :
      syncAt(k).hit => Cardinality(RecordsOf(syncAt(k).cap)) = 1

\* The marker of acme/widgets is followed by a git clone line of the same
\* repository, the marker of acme/tools and the marker of acme/widgets again:
\* one record each.
C27_Witness ==
  /\ crPc = "done"
  /\ crLines =
       << <<"ts", "sp", "Syncing repository:", "sp", "acme/widgets">>,
          <<"git", "sp", "clone", "sp", "https://github.com/", "acme/widgets",
            ".git">>,
          <<"Syncing repository:", "sp", "acme/tools">>,
          <<"ts", "sp", "Syncing repository:", "sp", "acme/widgets">> >>
  /\ Len(crResult) = 2
  /\ crResult[1].repository = <<"acme/widgets">>
  /\ crResult[2].repository = <<"acme/tools">>

\* ========================================================= SpecComments
\* src/src/index.ts, lines 295-325 and 438-468: the comment that a run leaves
\* on the pull request.  A body is the sequence of its pieces of text.

\* formatPRComment, src/src/formatter.ts lines 402-456: the title line names
\* the job; the footer links the action.
formatPRComment(jobName) ==
  <<"## Action ", "Log Analyzer", " - ", jobName, " Build Report",
    "### Root Cause", "---", "*[Action ", "Log Analyzer", "](", "url", ")*">>

\* formatSuccessPRComment, src/src/formatter.ts lines 768-773
formatSuccessPRComment(jobNames) ==
  <<"## ", "Log Analyzer", " Report", "All jobs completed successfully", ": ">>
    \o jobNames
    \o <<"---", "*[Action ", "Log Analyzer", "](", "url", ") [", "Report",
         " issue](", "url", ")*">>

\* c.body?.includes('Log Analyzer Report')
IncludesReportTitle(body) ==
  \E i \in 1..(Len(body) - 1) : body[i] = "Log Analyzer" /\ body[i + 1] = " Report"

\* c.body?.includes(text), for a text that is one piece
IncludesPiece(body, text) == \E i \in 1..Len(body) : body[i] = text

\* comments.find(c => c.body?.includes('Log Analyzer Report') &&
\*                    c.body?.includes(job.name))
IsJobComment(body, jobName) ==
  /\ IncludesReportTitle(body)
  /\ IncludesPiece(body, jobName)

\* comments.find(c => c.body?.includes('Log Analyzer Report') &&
\*                    c.body?.includes('All jobs completed successfully'))
IsSuccessComment(body) ==
  /\ IncludesReportTitle(body)
  /\ IncludesPiece(body, "All jobs completed successfully")

\* if (existingComment) updateComment(...) else createComment(...), the
\* existing comment being the first one found.
upsertComment(comments, found, body) ==
  IF found = {} THEN Append(comments, body)
  ELSE [comments EXCEPT ![Min(found)] = body]

\* One turn of the loop over the failed jobs: the comment of one job.
postJobComment(comments, jobName) ==
  upsertComment(comments,
                {i \in 1..Len(comments) : IsJobComment(comments[i], jobName)},
                formatPRComment(jobName))

RECURSIVE postJobComments(_, _)
postJobComments(comments, jobNames) ==
  IF jobNames = <<>> THEN comments
  ELSE postJobComments(postJobComment(comments, Head(jobNames)), Tail(jobNames))

\* The jobs of a run, as the API lists them.
RunJobs == {<<"build">>, <<"deploy">>, <<"build", "deploy">>}

\* The failed jobs of a run whose jobs are `jobs`.
FailedAmong(jobs) ==
  {f \in RunJobs : \A i \in 1..Len(f) : \E j \in 1..Len(jobs) : f[i] = jobs[j]}

InitComments ==
  /\ pcComments = <<>>
  /\ pcRuns = 0
  /\ PcOthersIdle

\* A run in which no job failed, with post-comment on a pull request.
RunPostsSuccess ==
  /\ pcRuns < MaxRuns
  /\ \E jobs \in RunJobs :
       pcComments' =
         upsertComment(pcComments,
                       {i \in 1..Len(pcComments) : IsSuccessComment(pcComments[i])},
                       formatSuccessPRComment(jobs))
  /\ pcRuns' = pcRuns + 1
  /\ PcFrame

\* A run in which jobs failed, with post-comment on a pull request.
RunPostsFailures ==
  /\ pcRuns < MaxRuns
  /\ \E jobs \in RunJobs : \E failed \in FailedAmong(jobs) :
       pcComments' = postJobComments(pcComments, failed)
  /\ pcRuns' = pcRuns + 1
  /\ PcFrame

NextComments ==
  \/ RunPostsSuccess
  \/ RunPostsFailures

SpecComments == InitComments /\ [][NextComments]_vars

\* ----------------------------------------------------------------- C28
\* The comments that are the analyzer's report of job j.
ReportsOfJob(j) ==
  {i \in 1..Len(pcComments) : pcComments[i] = formatPRComment(j)}

\* The comments that are a success report.
SuccessReports ==
  {i \in 1..Len(pcComments) :
     \E jobs \in RunJobs : pcComments[i] = formatSuccessPRComment(jobs)}

\* C28: after any sequence of action runs on the same pull request, the pull
\* request holds at most one analyzer comment per analysed job and at most one
\* success report.
C28_OneCommentPerJob ==
  /\ \A j \in {"build", "deploy"} : Cardinality(ReportsOfJob(j)) <= 1
  /\ Cardinality(SuccessReports) <= 1

\* ========================================================= SpecWarnings
\* src/src/index.ts, lines 14-35: the warning extraction of the success path.

\* cleanLogLine: the timestamp, the ANSI codes and the markers are removed, in
\* this order, and the rest is trimmed.
cleanLogLine(raw) == Trim(StripMarkers(StripAnsi(StripTimestamp(raw))))

\* The extraction without  if (!/error|failed|.../i.test(cleaned)).
RECURSIVE extractWarningsFromLogs_NoErrorTest(_)
extractWarningsFromLogs_NoErrorTest(lines) ==
  IF lines = <<>> THEN <<>>
  ELSE LET cleaned == cleanLogLine(Head(lines))
           rest == extractWarningsFromLogs_NoErrorTest(Tail(lines))
       IN  IF cleaned = <<>> THEN rest
           ELSE IF IsWarnVocab(cleaned) /\ ~IsWarningCount(cleaned)
                THEN <<cleaned>> \o rest
           ELSE rest

\* for (const raw of lines) { ... } ; return warnings
RECURSIVE extractWarningsFromLogs(_)
extractWarningsFromLogs(lines) ==
  IF lines = <<>> THEN <<>>
  ELSE LET cleaned == cleanLogLine(Head(lines))
           rest == extractWarningsFromLogs(Tail(lines))
       IN  IF cleaned = <<>> THEN rest
           ELSE IF IsWarnVocab(cleaned) /\ ~IsWarningCount(cleaned)
                THEN (IF ~IsErrorVocab(cleaned) THEN <<cleaned>> \o rest ELSE rest)
           ELSE rest

WarnLogs == UNION {[1..n -> LogLines] : n \in 1..MaxWarnLines}

InitWarnings ==
  /\ wnLogs \in WarnLogs
  /\ wnPatterns \in {<<>>, <<PNet>>, <<PBroken>>}
  /\ wnIndex = <<>>
  /\ wnAnalysis = NoAnalysis
  /\ wnPc = {}
  /\ WnOthersIdle

\* extractWarningsFromLogs(logs), on the success path
ExtractWarnings ==
  /\ "index" \notin wnPc
  /\ wnIndex' = extractWarningsFromLogs(wnLogs)
  /\ wnPc' = wnPc \cup {"index"}
  /\ UNCHANGED <<wnLogs, wnPatterns, wnAnalysis>>
  /\ WnFrame

\* analyzeLogs(logs, patterns), on the failure path
AnalyzeWarnings ==
  /\ "analyzer" \notin wnPc
  /\ wnAnalysis' = analyzeLogs(wnLogs, wnPatterns)
  /\ wnPc' = wnPc \cup {"analyzer"}
  /\ UNCHANGED <<wnLogs, wnPatterns, wnIndex>>
  /\ WnFrame

NextWarnings ==
  \/ ExtractWarnings
  \/ AnalyzeWarnings

SpecWarnings == InitWarnings /\ [][NextWarnings]_vars

\* ----------------------------------------------------------------- C29
\* C29: the warning extraction of the success path and the warning pass of
\* analyzeLogs are equivalent: for every log they return the same warning
\* lines in the same order (analyzeLogs returning, which it does unless an
\* entry of the catalog does not compile).
C29_WarningPassesAgree ==
  (wnPc = {"index", "analyzer"} /\ wnAnalysis.kind = "ok") =>
    wnIndex = wnAnalysis.warningLines

\* A log with a warning, a count of warnings and a line that holds an error
\* word and a warning word: both passes return the one warning.
C29_Witness ==
  /\ wnPc = {"index", "analyzer"}
  /\ wnLogs = << <<"ts", "sp", "mk", "warning", "sp", "TIMEOUT">>,
                 <<"num", "sp", "warnings">>,
                 <<"error", "sp", "warning">> >>
  /\ wnAnalysis.kind = "ok"
  /\ wnIndex = << <<"warning", "sp", "TIMEOUT">> >>
  /\ wnAnalysis.warningLines = wnIndex

\* ========================================================== SpecOutputs
\* src/src/index.ts, run(): the loop over the failed jobs with each job's log
\* and the five outputs of claim C30.  A job carries its log (what the
\* download, or the fallback of the catch, gave) and the name of its failed
\* step, <<>> when no step of it is marked failed.
OutputJobs ==
  { [name |-> "build", conclusion |-> "failure", step |-> <<"Compile">>,
     logs |-> << <<"ts", "sp", "mk", "npm", "sp", "ERR!", "sp", "code", "sp",
                   "ENOENT">> >>],
    [name |-> "test", conclusion |-> "failure", step |-> <<>>,
     logs |-> << <<"fatal", "sp", "timeout">> >>],
    [name |-> "test", conclusion |-> "failure", step |-> <<"Compile">>,
     logs |-> << <<"ts", "sp", "mk", "warning", "sp", "TIMEOUT">>, <<>> >>],
    [name |-> "build", conclusion |-> "success", step |-> <<>>,
     logs |-> << <<>> >>],
    [name |-> "test", conclusion |-> "cancelled", step |-> <<>>,
     logs |-> << <<>> >>] }

OutputJobLists == SeqsUpTo(OutputJobs, MaxOutJobs)

NoJobOutputs ==
  [rootCause |-> "unset", failedStep |-> <<"unset">>, suggestion |-> "unset",
   matchedPattern |-> "unset", category |-> "unset"]

\* core.setOutput('root-cause', analysis.rootCause) ... core.setOutput(
\* 'category', analysis.category), for the analysis of `job`
jobOutputs(job, patterns) ==
  LET analysis == analyzeLogs(job.logs, patterns)
  IN  [rootCause |-> analysis.rootCause,
       failedStep |-> failedStepOf(job.step, job.logs),
       suggestion |-> analysis.suggestion,
       matchedPattern |-> analysis.matchedPattern,
       category |-> analysis.category]

\* An output that is set once and not overwritten.
setOutputs_KeepFirst(old, new) == IF old = NoJobOutputs THEN new ELSE old

\* core.setOutput(name, value): the value replaces the one set before.
setOutputs(old, new) == new

InitOutputs ==
  /\ rnJobs \in OutputJobLists
  /\ rnFailedJobName \in {"", "build"}
  /\ rnFailedJobs = <<>>
  /\ rnNext = 0
  /\ rnOutputs = NoJobOutputs
  /\ rnPatterns \in {<<PNpm, PNet>>, <<PBroken>>}
  /\ rnPath = "none"
  /\ rnPc = "start"
  /\ RnOthersIdle

\* if (failedJobs.length === 0) { ... core.setOutput('root-cause', '') ...
\* core.setOutput('category', 'Success') ... return }
SetSuccessOutputs ==
  /\ rnPc = "selected"
  /\ rnFailedJobs = <<>>
  /\ rnOutputs' = setOutputs(rnOutputs,
                    [rootCause |-> "", failedStep |-> <<>>, suggestion |-> "",
                     matchedPattern |-> "none", category |-> "Success"])
  /\ rnPath' = "success"
  /\ rnPc' = "done"
  /\ UNCHANGED <<rnPatterns, rnJobs, rnFailedJobName, rnFailedJobs, rnNext>>
  /\ RnFrame

\* One turn of  for (const job of failedJobs) : the analysis of the job and
\* its outputs; when analyzeLogs throws, the outer catch calls core.setFailed.
SetJobOutputs ==
  /\ rnPc = "selected"
  /\ rnNext <= Len(rnFailedJobs)
  /\ IF analyzeLogs(rnFailedJobs[rnNext].logs, rnPatterns).kind = "ok"
     THEN /\ rnOutputs' = setOutputs(rnOutputs,
                            jobOutputs(rnFailedJobs[rnNext], rnPatterns))
          /\ rnPath' = "failure"
          /\ rnNext' = rnNext + 1
          /\ UNCHANGED rnPc
     ELSE /\ rnPc' = "setFailed"
          /\ UNCHANGED <<rnOutputs, rnNext, rnPath>>
  /\ UNCHANGED <<rnPatterns, rnJobs, rnFailedJobName, rnFailedJobs>>
  /\ RnFrame

NextOutputs ==
  \/ SelectFailedJobs
  \/ SetSuccessOutputs
  \/ SetJobOutputs
  \/ CompleteRun

SpecOutputs == InitOutputs /\ [][NextOutputs]_vars

\* ----------------------------------------------------------------- C30
\* The jobs of the run that failed and that the run analyses, in the order
\* the API lists them.
AnalysedJobs ==
  SelectSeq(rnJobs, LAMBDA job :
    /\ job.conclusion = "failure"
    /\ rnFailedJobName # "" => job.name = rnFailedJobName)

=============================================================================
